---- MODULE Spec2Model ----
(***************************************************************************)
(* Model of cc-codex-crawler.                                              *)
(*                                                                         *)
(*   Spec        crawler.main in aws/http mode: listing result, completion *)
(*               state, the ThreadPoolExecutor and process_warc            *)
(*   SpecStream  streaming_processor.run: the queue, producer, consumers   *)
(*   SpecFetch   one call of a retrying fetch: fetch_lines,                *)
(*               fetch_with_backoff, list_warc_keys_http,                  *)
(*               stream_and_extract_http, stream_and_extract               *)
(***************************************************************************)
EXTENDS Integers, Sequences, FiniteSets, TLC

\* ------------------------------------------------------------------ bounds
MaxSegs == 2        \* segment identifiers are 1..MaxSegs
MaxWorkers == 2     \* args.workers ranges over 1..MaxWorkers
MaxSamples == 1     \* args.samples ranges over 0..MaxSamples
MaxUrls == 3        \* config.urls holds 0..MaxUrls URLs
MaxConsumers == 3   \* config.max_concurrent_tasks ranges over 1..MaxConsumers
MaxRetries == 5     \* config.max_retries ranges over 0..MaxRetries
MaxLines == 2       \* a fetched source holds 0..MaxLines lines or records
MaxSaves == 4       \* save_file is called 0..MaxSaves times on one directory
MaxPages == 2       \* a listing has 0..MaxPages pages
MaxPageLen == 2     \* a page or manifest has 0..MaxPageLen objects or lines
MaxKeys == 2        \* max_keys ranges over 0..MaxKeys
MaxPlain == 2       \* a gzip member holds 0..MaxPlain plaintext bytes
MaxMembers == 2     \* a gzip stream has 1..MaxMembers members
MaxTime == 3        \* the clock runs over 0..MaxTime seconds
MaxRate == 2        \* args.rate_limit ranges over 1..MaxRate seconds
MaxIdxLines == 2    \* the index response has 0..MaxIdxLines lines
MaxRecs == 2        \* a range response yields 0..MaxRecs records
MaxYield == 2       \* a segment holds 0..MaxYield records with a target URI
MaxPoolArg == 5     \* --workers ranges over -MaxPoolArg..MaxPoolArg
MaxDispatch == 5    \* 1..MaxDispatch segments are dispatched

\* ---------------------------------------------------------- small helpers
Min(a, b) == IF a <= b THEN a ELSE b

Range(s) == {s[i] : i \in 1..Len(s)}

RECURSIVE SortedSeq(_)
\* sorted(completed): the ascending list of the members of S
SortedSeq(S) ==
    IF S = {} THEN <<>>
    ELSE LET m == CHOOSE x \in S : \A y \in S : x <= y
         IN <<m>> \o SortedSeq(S \ {m})

RECURSIVE SelectSeq2(_, _)
\* [k for k in keys if k not in done]
SelectSeq2(keys, done) ==
    IF keys = <<>> THEN <<>>
    ELSE IF Head(keys) \in done
         THEN SelectSeq2(Tail(keys), done)
         ELSE <<Head(keys)>> \o SelectSeq2(Tail(keys), done)

\* ------------------------------------------------------ program constants
Keys == 1..MaxSegs
\* TARGET_EXTENSIONS (two categories are enough to tell them apart)
TARGET_EXTENSIONS == {"py", "js"}
\* a yielded URL that ends with no configured extension (next(..., None))
NoExt == "none"
\* what the iterator can raise: a retry budget that ran out, anything else
ExcKinds == {"RequestException", "OtherException"}

VARIABLES
    \* ---- crawler.main, aws/http mode
    run,            \* 1 = first run of main, 2 = a second run over the same list
    mainPc,         \* "start", "pool", "shutdown", "done"
    mainExc,        \* an exception left the as_completed loop
    listed,         \* the segment list the lister returned
    warc_keys,      \* main's warc_keys after the filter
    prior,          \* what load_state returned at the start of this run
    stateFile,      \* STATE_FILE: [kind |-> "missing"] or [kind |-> "list", items |-> seq]
    completed_keys, \* main's in-memory set
    samples,        \* args.samples
    workers,        \* args.workers
    max_workers,    \* size of the pool
    taskQueue,      \* the executor's work queue
    futState,       \* key -> "none", "pending", "running", "done", "exc"
    awaited,        \* futures whose result() the loop has taken
    dispatched,     \* run -> keys submitted to the pool in that run
    saved_counts,   \* ext -> int
    saveCalls,      \* ext -> number of files save_file wrote
    state_lock,     \* 0 or the key whose process_warc holds it
    \* ---- one process_warc(key) call, run by one pool thread
    pwPc,           \* key -> "-", "iter", "check", "save", "incr", "finally", "locked"
    pwExt,          \* key -> category of the record at hand
    pwOut,          \* key -> "none", "ok", "failed" (caught), "uncaught"
    pwSaved         \* key -> a file was written from this segment

poolVars == <<run, mainPc, mainExc, listed, warc_keys, prior, stateFile,
              completed_keys, samples, workers, max_workers, taskQueue,
              futState, awaited, dispatched, saved_counts, saveCalls,
              state_lock, pwPc, pwExt, pwOut, pwSaved>>

VARIABLES
    \* ---- streaming_processor.run
    sPc,            \* run(): "start", "join1", "join2", "await", "done"
    sN,             \* config.max_concurrent_tasks
    sUrls,          \* len(config.urls); the URLs are 1..sUrls
    queue,          \* the asyncio.Queue's items, 0 standing for None
    unfinished,     \* the queue's count of items put and not yet task_done
    cPc,            \* consumer -> "off", "get", "fetch", "exited"
    cUrl,           \* consumer -> URL it is fetching (0: none)
    cSent,          \* consumer -> sentinels it has taken
    sentPut,        \* sentinels put on the queue so far
    urlDone,        \* URLs taken from the queue and marked done
    urlOutcome      \* URL -> "none", "eof", "limit", "error"

streamVars == <<sPc, sN, sUrls, queue, unfinished, cPc, cUrl, cSent, sentPut,
                urlDone, urlOutcome>>

VARIABLES
    \* ---- one call of a retrying fetch
    fFn,            \* the function called
    fPc,            \* "off", "request", "stream", "returned", "raised", "propagated"
    fMaxRetries,    \* max_retries (the long-retry functions)
    fLatest,        \* appended_latest (list_warc_keys_http)
    fLines,         \* lines or matching records the source holds: 1..fLines
    fCount,         \* the code's counter: attempt (short), retries (long)
    fBackoff,       \* the code's backoff (short) or backoff_idx (long)
    fSleeps,        \* the delays of the backoff sleeps made, in order
    fRateSleeps,    \* time.sleep(rate_limit) calls made
    fRequests,      \* HTTP requests issued
    fFails,         \* requests that failed with a retried error
    fNoReq,         \* attempts that failed before a request was issued
    fPos,           \* lines the current attempt has yielded
    fDelivered,     \* every line handed to the caller, in order
    fResp           \* what the last request came back with, "none" before it

fetchVars == <<fFn, fPc, fMaxRetries, fLatest, fLines, fCount, fBackoff,
               fSleeps, fRateSleeps, fRequests, fFails, fNoReq, fPos,
               fDelivered, fResp>>

VARIABLES
    \* ---- fetcher.py: one selector built from a document, applied to a record
    selPc,          \* "off", "doc", "built", "matched"
    selDoc,         \* the recordSelector document: section name -> section
    selector,       \* the RecordSelector from_dict returned
    selRecord,      \* the index record given to matches
    selResult       \* what matches returned

selVars == <<selPc, selDoc, selector, selRecord, selResult>>

VARIABLES
    \* ---- utils.py save_file: sequential calls into one output directory
    svPc,           \* "off", "run"
    svDir,          \* the directory: file name -> bytes of the file
    svCalls         \* the calls completed, in order: url, data, returned path

saveVars == <<svPc, svDir, svCalls>>

VARIABLES
    \* ---- utils.py load_state, save_state: one process and the state file
    stPc,           \* "off", "start", "run", "dump", "raised", "killed", "reloaded"
    stFile,         \* the content of the state file
    stMem,          \* the in-memory completed set
    stSaved,        \* every identifier a completed save_state call recorded
    stLoaded,       \* what the last load_state call returned
    stLoadedFrom    \* the file content that call read

storeVars == <<stPc, stFile, stMem, stSaved, stLoaded, stLoadedFrom>>

VARIABLES
    \* ---- utils.py list_warc_keys, list_warc_keys_http: one listing call
    lsPc,           \* "off", "page", "objs", "returned"
    lsFn,           \* the function called
    lsPages,        \* the pages of the listing (the manifest is one page)
    lsMaxKeys,      \* max_keys
    lsKeys,         \* keys, in order: <<page, index>> of the object and the
                    \* number of leading "crawl-data/" of the string appended
    lsPageNo,       \* pages fetched so far
    lsIdx           \* objects of the current page looked at

listVars == <<lsPc, lsFn, lsPages, lsMaxKeys, lsKeys, lsPageNo, lsIdx>>

VARIABLES
    \* ---- crawler.py main, aws and http mode: listing, fallback, transport
    mPc,            \* "off", "list", "fallback", "load", "pool", "done"
    mMode,          \* args.mode: "aws" or "http"
    mUseHttp,       \* use_http
    mCalls,         \* the listing calls made, in order: "bucket", "manifest"
    mListing,       \* "none", "ok", or "failed": listing gave up
    mKeys,          \* warc_keys
    mFile,          \* the content of STATE_FILE
    mWrites,        \* save_state calls made
    mVia            \* per segment: "none", or the transport it is fetched by

modeVars == <<mPc, mMode, mUseHttp, mCalls, mListing, mKeys, mFile, mWrites,
              mVia>>

VARIABLES
    \* ---- streaming_processor.py: one run of a gzip line reader
    gzPc,           \* "off", "read", "done", "raised"
    gzFn,           \* the reader: "response" or "file"
    gzMembers,      \* the plaintext of each gzip member of the stream
    gzLen,          \* bytes the source delivers before it ends
    gzPos,          \* bytes read so far
    gzZ,            \* the decompressor: "start", "member", "eof"
    gzBuf,          \* buf
    gzOut           \* the lines yielded, in order

gzVars == <<gzPc, gzFn, gzMembers, gzLen, gzPos, gzZ, gzBuf, gzOut>>

VARIABLES
    \* ---- crawler.py pool and utils.py: when the workers' fetches are sent
    plPc,           \* "off", "run"
    plNow,          \* the clock, in seconds
    plRate,         \* args.rate_limit
    plWorkers,      \* max_workers
    plQueue,        \* segments submitted and not yet taken
    plW,            \* per worker: st "idle", "fetching", "sleeping"; wake time
    plStarts        \* the times the requests to the host were sent, in order

politeVars == <<plPc, plNow, plRate, plWorkers, plQueue, plW, plStarts>>

VARIABLES
    \* ---- crawler.py main, index mode (lines 115-187)
    ixPc,           \* "off", "lines", "recs", "done", "raised"
    ixLines,        \* resp.text.splitlines()
    ixSamples,      \* args.samples
    ixExt,          \* ext = args.extensions or DEFAULT_EXT
    ixI,            \* the number of lines the for loop has taken
    ixCount,        \* count
    ixR,            \* the number of records the inner loop has taken
    ixSaved         \* the save_file calls that returned, in order

indexVars == <<ixPc, ixLines, ixSamples, ixExt, ixI, ixCount, ixR, ixSaved>>

VARIABLES
    \* ---- utils.py save_file called by the pool threads of crawler.py
    cvPc,           \* "off", "run"
    cvDir,          \* OUTPUT_DIR: file name -> content
    cvT,            \* per thread: pc "idle", "check", "write"; the call's
                    \* url, data and counter
    cvStarted,      \* the number of save_file calls entered
    cvReturned      \* the calls that returned: thread, url, data, path

concVars == <<cvPc, cvDir, cvT, cvStarted, cvReturned>>

VARIABLES
    \* ---- utils.py extractor and crawler.py process_warc on one record
    acPc,           \* "off", "run"
    acSamples,      \* args.samples
    acCounts,       \* saved_counts
    acLog           \* per record met: uri, yielded, ext found, outcome

acctVars == <<acPc, acSamples, acCounts, acLog>>

VARIABLES
    \* ---- crawler.py 269-270: the size the pool is created with
    psPc,           \* "off", "start", "created", "raised"
    psWorkers,      \* args.workers
    psKeys,         \* len(warc_keys)
    psSize          \* max_workers

sizeVars == <<psPc, psWorkers, psKeys, psSize>>

vars == <<poolVars, streamVars, fetchVars, selVars, saveVars, storeVars,
          listVars, modeVars,
          gzVars,
          politeVars,
          indexVars,
          concVars,
          acctVars,
          sizeVars>>

\* ------------------------------------------------ utils.py: state store
\* save_state: {"completed": sorted(completed)} dumped over the file
save_state_descending(completed) ==
    [kind |-> "list",
     items |-> [i \in 1..Cardinality(completed) |->
                  SortedSeq(completed)[Cardinality(completed) + 1 - i]]]
save_state(completed) == [kind |-> "list", items |-> SortedSeq(completed)]

\* what the state file can hold:
\*   "missing"           no file
\*   "unreadable"        open() raises
\*   "invalid"           not JSON: empty, cut short or garbage
\*   "scalar", "null"    a JSON number or boolean, JSON null
\*   "object"            a JSON object without "completed"
\*   "completed_scalar"  {"completed": <number or boolean>}
\*   "completed_null"    {"completed": null}
\*   "list"              {"completed": [items]}, what save_state writes
\*   "toplist"           a JSON list [items]
ItemLists == UNION {[1..n -> Keys] : n \in 0..MaxSegs}
FileContents ==
    [kind : {"missing", "unreadable", "invalid", "scalar", "null", "object",
             "completed_scalar", "completed_null"}]
    \cup [kind : {"list", "toplist"}, items : ItemLists]

\* load_state returns set() when the file is missing and when open or
\* json.load raises; otherwise data is the parsed value, or its "completed"
\* entry ([] by default) when it is an object, and {str(x) for x in data},
\* outside the try, is returned
load_state(file) ==
    IF file.kind \in {"list", "toplist"} THEN Range(file.items) ELSE {}

\* {str(x) for x in data} raises TypeError when data is not iterable
load_state_raises(file) ==
    file.kind \in {"scalar", "null", "completed_scalar", "completed_null"}

\* ------------------------------------------------ crawler.py: main
\* warc_keys = [k for k in warc_keys if k not in completed_keys]
FilterKeysAll(keys, done) == keys
FilterKeys(keys, done) ==
    IF done # {} THEN SelectSeq2(keys, done) ELSE keys

\* max_workers = min(args.workers, len(warc_keys)) or 1
PoolSize(w, n) == IF Min(w, n) = 0 THEN 1 ELSE Min(w, n)

\* except Exception in process_warc: which kinds the handler catches
PW_CatchesNarrow(kind) == kind = "RequestException"
PW_Catches(kind) == kind \in ExcKinds

\* finally: completed_keys.add(key)
PW_CompletedOnSuccess(S, key, outcome) ==
    IF outcome = "ok" THEN S \cup {key} ELSE S
PW_Completed(S, key, outcome) == S \cup {key}

\* the pool threads that are inside process_warc
Running == {k \in Keys : futState[k] = "running"}

\* the worker pool before main is started
PoolOff ==
    /\ run = 1
    /\ mainPc = "off"
    /\ mainExc = FALSE
    /\ listed = <<>>
    /\ warc_keys = <<>>
    /\ prior = {}
    /\ stateFile = [kind |-> "missing"]
    /\ completed_keys = {}
    /\ samples = 0
    /\ workers = 1
    /\ dispatched = [r \in 1..2 |-> {}]
    /\ max_workers = 0
    /\ taskQueue = <<>>
    /\ futState = [k \in Keys |-> "none"]
    /\ awaited = {}
    /\ saved_counts = [e \in TARGET_EXTENSIONS |-> 0]
    /\ saveCalls = [e \in TARGET_EXTENSIONS |-> 0]
    /\ state_lock = 0
    /\ pwPc = [k \in Keys |-> "-"]
    /\ pwExt = [k \in Keys |-> NoExt]
    /\ pwOut = [k \in Keys |-> "none"]
    /\ pwSaved = [k \in Keys |-> FALSE]

PoolInit ==
    /\ run = 1
    /\ mainPc = "start"
    /\ mainExc = FALSE
    /\ listed \in {SortedSeq(S) : S \in SUBSET Keys}
    /\ warc_keys = listed
    /\ prior = {}
    /\ stateFile \in {[kind |-> "missing"]}
                     \cup {save_state(S) : S \in SUBSET Keys}
    /\ completed_keys = {}
    /\ samples \in 0..MaxSamples
    /\ workers \in 1..MaxWorkers
    /\ dispatched = [r \in 1..2 |-> {}]
    /\ max_workers = 0
    /\ taskQueue = <<>>
    /\ futState = [k \in Keys |-> "none"]
    /\ awaited = {}
    /\ saved_counts = [e \in TARGET_EXTENSIONS |-> 0]
    /\ saveCalls = [e \in TARGET_EXTENSIONS |-> 0]
    /\ state_lock = 0
    /\ pwPc = [k \in Keys |-> "-"]
    /\ pwExt = [k \in Keys |-> NoExt]
    /\ pwOut = [k \in Keys |-> "none"]
    /\ pwSaved = [k \in Keys |-> FALSE]

\* lines 214-224 and 269-271: load the state, filter, return when nothing is
\* left, else create the pool and submit every key
MainLoad ==
    /\ mainPc = "start"
    /\ LET loaded == load_state(stateFile)
           keys == FilterKeys(warc_keys, loaded)
       IN /\ prior' = loaded
          /\ completed_keys' = loaded
          /\ warc_keys' = keys
          /\ IF keys = <<>>
             THEN /\ mainPc' = "done"
                  /\ UNCHANGED <<max_workers, taskQueue, futState, dispatched>>
             ELSE /\ mainPc' = "pool"
                  /\ max_workers' = PoolSize(workers, Len(keys))
                  /\ taskQueue' = keys
                  /\ futState' = [k \in Keys |->
                                    IF k \in Range(keys) THEN "pending" ELSE "none"]
                  /\ dispatched' = [dispatched EXCEPT ![run] = Range(keys)]
    /\ UNCHANGED <<streamVars, fetchVars, selVars, saveVars,
                   storeVars, listVars, modeVars,
                   gzVars, politeVars, indexVars,
                   concVars, acctVars, sizeVars>>
    /\ UNCHANGED <<run, mainExc, listed, stateFile, samples, workers, awaited,
                   saved_counts, saveCalls, state_lock, pwPc, pwExt, pwOut,
                   pwSaved>>

\* a free pool thread takes the next work item and enters process_warc; the
\* iterator is created (generator functions run nothing until iterated)
WorkerTake ==
    /\ mainPc \in {"pool", "shutdown"}
    /\ Cardinality(Running) < max_workers
    /\ taskQueue # <<>>
    /\ taskQueue' = Tail(taskQueue)
    /\ futState' = [futState EXCEPT ![Head(taskQueue)] = "running"]
    /\ pwPc' = [pwPc EXCEPT ![Head(taskQueue)] = "iter"]
    /\ UNCHANGED <<streamVars, fetchVars, selVars, saveVars,
                   storeVars, listVars, modeVars,
                   gzVars, politeVars, indexVars,
                   concVars, acctVars, sizeVars>>
    /\ UNCHANGED <<run, mainPc, mainExc, listed, warc_keys, prior, stateFile,
                   completed_keys, samples, workers, max_workers, awaited,
                   dispatched, saved_counts, saveCalls, state_lock, pwExt,
                   pwOut, pwSaved>>

\* lines 245-251: the iterator yields (url, data); ext is the configured
\* extension the url ends with, or None, in which case the record is skipped
PW_Yield(k) ==
    /\ pwPc[k] = "iter"
    /\ \E e \in TARGET_EXTENSIONS \cup {NoExt} :
          /\ pwExt' = [pwExt EXCEPT ![k] = e]
          /\ pwPc' = [pwPc EXCEPT ![k] = IF e = NoExt THEN "iter" ELSE "check"]
    /\ UNCHANGED <<streamVars, fetchVars, selVars, saveVars,
                   storeVars, listVars, modeVars,
                   gzVars, politeVars, indexVars,
                   concVars, acctVars, sizeVars>>
    /\ UNCHANGED <<run, mainPc, mainExc, listed, warc_keys, prior, stateFile,
                   completed_keys, samples, workers, max_workers, taskQueue,
                   futState, awaited, dispatched, saved_counts, saveCalls,
                   state_lock, pwOut, pwSaved>>

\* the iterator is exhausted: the for loop ends, on to the finally block
PW_End(k) ==
    /\ pwPc[k] = "iter"
    /\ pwPc' = [pwPc EXCEPT ![k] = "finally"]
    /\ pwOut' = [pwOut EXCEPT ![k] = "ok"]
    /\ pwExt' = [pwExt EXCEPT ![k] = NoExt]
    /\ UNCHANGED <<streamVars, fetchVars, selVars, saveVars,
                   storeVars, listVars, modeVars,
                   gzVars, politeVars, indexVars,
                   concVars, acctVars, sizeVars>>
    /\ UNCHANGED <<run, mainPc, mainExc, listed, warc_keys, prior, stateFile,
                   completed_keys, samples, workers, max_workers, taskQueue,
                   futState, awaited, dispatched, saved_counts, saveCalls,
                   state_lock, pwSaved>>

\* lines 262-263: the iterator raises (on the fetch or in mid-stream)
PW_Raise(k) ==
    /\ pwPc[k] = "iter"
    /\ \E kind \in ExcKinds :
          pwOut' = [pwOut EXCEPT ![k] =
                      IF PW_Catches(kind) THEN "failed" ELSE "uncaught"]
    /\ pwPc' = [pwPc EXCEPT ![k] = "finally"]
    /\ pwExt' = [pwExt EXCEPT ![k] = NoExt]
    /\ UNCHANGED <<streamVars, fetchVars, selVars, saveVars,
                   storeVars, listVars, modeVars,
                   gzVars, politeVars, indexVars,
                   concVars, acctVars, sizeVars>>
    /\ UNCHANGED <<run, mainPc, mainExc, listed, warc_keys, prior, stateFile,
                   completed_keys, samples, workers, max_workers, taskQueue,
                   futState, awaited, dispatched, saved_counts, saveCalls,
                   state_lock, pwSaved>>

\* lines 252-254: with lock: if saved_counts[ext] >= args.samples: continue
PW_Check(k) ==
    /\ pwPc[k] = "check"
    /\ pwPc' = [pwPc EXCEPT ![k] =
                  IF saved_counts[pwExt[k]] >= samples THEN "iter" ELSE "save"]
    /\ UNCHANGED <<streamVars, fetchVars, selVars, saveVars,
                   storeVars, listVars, modeVars,
                   gzVars, politeVars, indexVars,
                   concVars, acctVars, sizeVars>>
    /\ UNCHANGED <<run, mainPc, mainExc, listed, warc_keys, prior, stateFile,
                   completed_keys, samples, workers, max_workers, taskQueue,
                   futState, awaited, dispatched, saved_counts, saveCalls,
                   state_lock, pwExt, pwOut, pwSaved>>

\* line 256: save_file writes the payload (the lock is not held)
PW_Save(k) ==
    /\ pwPc[k] = "save"
    /\ saveCalls' = [saveCalls EXCEPT ![pwExt[k]] = @ + 1]
    /\ pwSaved' = [pwSaved EXCEPT ![k] = TRUE]
    /\ pwPc' = [pwPc EXCEPT ![k] = "incr"]
    /\ UNCHANGED <<streamVars, fetchVars, selVars, saveVars,
                   storeVars, listVars, modeVars,
                   gzVars, politeVars, indexVars,
                   concVars, acctVars, sizeVars>>
    /\ UNCHANGED <<run, mainPc, mainExc, listed, warc_keys, prior, stateFile,
                   completed_keys, samples, workers, max_workers, taskQueue,
                   futState, awaited, dispatched, saved_counts, state_lock,
                   pwExt, pwOut>>

PW_SaveFailsCounted(k) ==
    /\ pwPc[k] = "save"
    /\ pwPc' = [pwPc EXCEPT ![k] = "iter"]
    /\ saved_counts' = [saved_counts EXCEPT ![pwExt[k]] = @ + 1]
    /\ UNCHANGED <<streamVars, fetchVars, selVars, saveVars,
                   storeVars, listVars, modeVars,
                   gzVars, politeVars, indexVars,
                   concVars, acctVars, sizeVars>>
    /\ UNCHANGED <<run, mainPc, mainExc, listed, warc_keys, prior, stateFile,
                   completed_keys, samples, workers, max_workers, taskQueue,
                   futState, awaited, dispatched, saveCalls,
                   state_lock, pwExt, pwOut, pwSaved>>

\* lines 260-261: save_file raises; logged, on to the next record
PW_SaveFails(k) ==
    /\ pwPc[k] = "save"
    /\ pwPc' = [pwPc EXCEPT ![k] = "iter"]
    /\ UNCHANGED <<streamVars, fetchVars, selVars, saveVars,
                   storeVars, listVars, modeVars,
                   gzVars, politeVars, indexVars,
                   concVars, acctVars, sizeVars>>
    /\ UNCHANGED <<run, mainPc, mainExc, listed, warc_keys, prior, stateFile,
                   completed_keys, samples, workers, max_workers, taskQueue,
                   futState, awaited, dispatched, saved_counts, saveCalls,
                   state_lock, pwExt, pwOut, pwSaved>>

\* lines 257-258: with lock: saved_counts[ext] += 1
PW_Incr(k) ==
    /\ pwPc[k] = "incr"
    /\ saved_counts' = [saved_counts EXCEPT ![pwExt[k]] = @ + 1]
    /\ pwPc' = [pwPc EXCEPT ![k] = "iter"]
    /\ UNCHANGED <<streamVars, fetchVars, selVars, saveVars,
                   storeVars, listVars, modeVars,
                   gzVars, politeVars, indexVars,
                   concVars, acctVars, sizeVars>>
    /\ UNCHANGED <<run, mainPc, mainExc, listed, warc_keys, prior, stateFile,
                   completed_keys, samples, workers, max_workers, taskQueue,
                   futState, awaited, dispatched, saveCalls, state_lock,
                   pwExt, pwOut, pwSaved>>

\* lines 264-266: finally: with state_lock: completed_keys.add(key)
PW_Finally(k) ==
    /\ pwPc[k] = "finally"
    /\ state_lock = 0
    /\ state_lock' = k
    /\ completed_keys' = PW_Completed(completed_keys, k, pwOut[k])
    /\ pwPc' = [pwPc EXCEPT ![k] = "locked"]
    /\ UNCHANGED <<streamVars, fetchVars, selVars, saveVars,
                   storeVars, listVars, modeVars,
                   gzVars, politeVars, indexVars,
                   concVars, acctVars, sizeVars>>
    /\ UNCHANGED <<run, mainPc, mainExc, listed, warc_keys, prior, stateFile,
                   samples, workers, max_workers, taskQueue, futState, awaited,
                   dispatched, saved_counts, saveCalls, pwExt, pwOut, pwSaved>>

\* line 267: save_state(STATE_FILE, completed_keys), the lock is released and
\* the future is settled: with the exception when the handler let one pass
PW_SaveState(k) ==
    /\ pwPc[k] = "locked"
    /\ state_lock = k
    /\ stateFile' = save_state(completed_keys)
    /\ state_lock' = 0
    /\ futState' = [futState EXCEPT ![k] =
                      IF pwOut[k] = "uncaught" THEN "exc" ELSE "done"]
    /\ pwPc' = [pwPc EXCEPT ![k] = "-"]
    /\ UNCHANGED <<streamVars, fetchVars, selVars, saveVars,
                   storeVars, listVars, modeVars,
                   gzVars, politeVars, indexVars,
                   concVars, acctVars, sizeVars>>
    /\ UNCHANGED <<run, mainPc, mainExc, listed, warc_keys, prior,
                   completed_keys, samples, workers, max_workers, taskQueue,
                   awaited, dispatched, saved_counts, saveCalls, pwExt, pwOut,
                   pwSaved>>

\* lines 272-273: for fut in as_completed(futures): fut.result()
MainResult ==
    /\ mainPc = "pool"
    /\ \E k \in Keys :
          /\ futState[k] \in {"done", "exc"}
          /\ k \notin awaited
          /\ awaited' = awaited \cup {k}
          /\ IF futState[k] = "exc"
             THEN /\ mainExc' = TRUE
                  /\ mainPc' = "shutdown"
             ELSE /\ mainExc' = mainExc
                  /\ mainPc' = IF awaited' = dispatched[run]
                               THEN "shutdown" ELSE "pool"
    /\ UNCHANGED <<streamVars, fetchVars, selVars, saveVars,
                   storeVars, listVars, modeVars,
                   gzVars, politeVars, indexVars,
                   concVars, acctVars, sizeVars>>
    /\ UNCHANGED <<run, listed, warc_keys, prior, stateFile, completed_keys,
                   samples, workers, max_workers, taskQueue, futState,
                   dispatched, saved_counts, saveCalls, state_lock, pwPc,
                   pwExt, pwOut, pwSaved>>

\* line 270: leaving the with block: shutdown(wait=True) returns when every
\* submitted work item has run
MainShutdown ==
    /\ mainPc = "shutdown"
    /\ taskQueue = <<>>
    /\ Running = {}
    /\ mainPc' = "done"
    /\ UNCHANGED <<streamVars, fetchVars, selVars, saveVars,
                   storeVars, listVars, modeVars,
                   gzVars, politeVars, indexVars,
                   concVars, acctVars, sizeVars>>
    /\ UNCHANGED <<run, mainExc, listed, warc_keys, prior, stateFile,
                   completed_keys, samples, workers, max_workers, taskQueue,
                   futState, awaited, dispatched, saved_counts, saveCalls,
                   state_lock, pwPc, pwExt, pwOut, pwSaved>>

\* the program is started again over the same segment list; only the state
\* file survives the first process
MainRerun ==
    /\ mainPc = "done"
    /\ run = 1
    /\ ~mainExc
    /\ run' = 2
    /\ mainPc' = "start"
    /\ warc_keys' = listed
    /\ prior' = {}
    /\ completed_keys' = {}
    /\ max_workers' = 0
    /\ taskQueue' = <<>>
    /\ futState' = [k \in Keys |-> "none"]
    /\ awaited' = {}
    /\ saved_counts' = [e \in TARGET_EXTENSIONS |-> 0]
    /\ saveCalls' = [e \in TARGET_EXTENSIONS |-> 0]
    /\ pwOut' = [k \in Keys |-> "none"]
    /\ pwSaved' = [k \in Keys |-> FALSE]
    /\ UNCHANGED <<streamVars, fetchVars, selVars, saveVars,
                   storeVars, listVars, modeVars,
                   gzVars, politeVars, indexVars,
                   concVars, acctVars, sizeVars>>
    /\ UNCHANGED <<mainExc, listed, stateFile, samples, workers, dispatched,
                   state_lock, pwPc, pwExt>>

\* ------------------------------------------- streaming_processor.py: run
Consumers == 1..MaxConsumers
Sentinel == 0

\* the items producer() puts when it is awaited: every URL, then one None.
\* The queue is unbounded, so no put suspends and the coroutine runs to its
\* end before any consumer task is scheduled.
ProducerItems(n) == [i \in 1..(n + 1) |-> IF i <= n THEN i ELSE Sentinel]

\* for _ in cons: await queue.put(None)
RunSentinels(n) == [i \in 1..n |-> Sentinel]

NumSentinels(items) == Cardinality({i \in 1..Len(items) : items[i] = Sentinel})

StreamOff ==
    /\ sPc = "off"
    /\ sN = 0
    /\ sUrls = 0
    /\ queue = <<>>
    /\ unfinished = 0
    /\ cPc = [c \in Consumers |-> "off"]
    /\ cUrl = [c \in Consumers |-> 0]
    /\ cSent = [c \in Consumers |-> 0]
    /\ sentPut = 0
    /\ urlDone = {}
    /\ urlOutcome = [u \in 1..MaxUrls |-> "none"]

StreamInit ==
    /\ sPc = "start"
    /\ sN \in 1..MaxConsumers
    /\ sUrls \in 0..MaxUrls
    /\ queue = <<>>
    /\ unfinished = 0
    /\ cPc = [c \in Consumers |-> "off"]
    /\ cUrl = [c \in Consumers |-> 0]
    /\ cSent = [c \in Consumers |-> 0]
    /\ sentPut = 0
    /\ urlDone = {}
    /\ urlOutcome = [u \in 1..MaxUrls |-> "none"]

\* lines 137-144: the consumer tasks are created, producer() is awaited and
\* run() suspends in the first queue.join()
Run_Start ==
    /\ sPc = "start"
    /\ cPc' = [c \in Consumers |-> IF c <= sN THEN "get" ELSE "off"]
    /\ queue' = queue \o ProducerItems(sUrls)
    /\ unfinished' = unfinished + Len(ProducerItems(sUrls))
    /\ sentPut' = sentPut + NumSentinels(ProducerItems(sUrls))
    /\ sPc' = "join1"
    /\ UNCHANGED <<sN, sUrls, cUrl, cSent, urlDone, urlOutcome>>
    /\ UNCHANGED <<poolVars, fetchVars, selVars, saveVars,
                   storeVars, listVars, modeVars,
                   gzVars, politeVars, indexVars,
                   concVars, acctVars, sizeVars>>

\* lines 108-111: queue.get() returns the sentinel: task_done(), break, and
\* the consumer task ends
Consumer_GetSentinel(c) ==
    /\ cPc[c] = "get"
    /\ queue # <<>>
    /\ Head(queue) = Sentinel
    /\ queue' = Tail(queue)
    /\ unfinished' = unfinished - 1
    /\ cSent' = [cSent EXCEPT ![c] = @ + 1]
    /\ cPc' = [cPc EXCEPT ![c] = "exited"]
    /\ UNCHANGED <<sPc, sN, sUrls, cUrl, sentPut, urlDone, urlOutcome>>
    /\ UNCHANGED <<poolVars, fetchVars, selVars, saveVars,
                   storeVars, listVars, modeVars,
                   gzVars, politeVars, indexVars,
                   concVars, acctVars, sizeVars>>

\* lines 108-115: queue.get() returns a URL and the consumer suspends in
\* fetch_lines
Consumer_GetUrl(c) ==
    /\ cPc[c] = "get"
    /\ queue # <<>>
    /\ Head(queue) # Sentinel
    /\ queue' = Tail(queue)
    /\ cUrl' = [cUrl EXCEPT ![c] = Head(queue)]
    /\ cPc' = [cPc EXCEPT ![c] = "fetch"]
    /\ UNCHANGED <<sPc, sN, sUrls, unfinished, cSent, sentPut, urlDone,
                   urlOutcome>>
    /\ UNCHANGED <<poolVars, fetchVars, selVars, saveVars,
                   storeVars, listVars, modeVars,
                   gzVars, politeVars, indexVars,
                   concVars, acctVars, sizeVars>>

Consumer_FetchEndsNoFinally(c) ==
    /\ cPc[c] = "fetch"
    /\ \E how \in {"eof", "limit", "error"} :
          /\ urlOutcome' = [urlOutcome EXCEPT ![cUrl[c]] = how]
          /\ unfinished' = IF how = "error" THEN unfinished
                           ELSE unfinished - 1
    /\ urlDone' = urlDone \cup {cUrl[c]}
    /\ cUrl' = [cUrl EXCEPT ![c] = 0]
    /\ cPc' = [cPc EXCEPT ![c] = "get"]
    /\ UNCHANGED <<sPc, sN, sUrls, queue, cSent, sentPut>>
    /\ UNCHANGED <<poolVars, fetchVars, selVars, saveVars,
                   storeVars, listVars, modeVars,
                   gzVars, politeVars, indexVars,
                   concVars, acctVars, sizeVars>>

\* lines 115-129: the fetch of the URL finishes (end of lines, record_limit
\* reached, or the error fetch_lines re-raised, which is logged); finally:
\* queue.task_done(), and back to queue.get()
Consumer_FetchEnds(c) ==
    /\ cPc[c] = "fetch"
    /\ \E how \in {"eof", "limit", "error"} :
          urlOutcome' = [urlOutcome EXCEPT ![cUrl[c]] = how]
    /\ unfinished' = unfinished - 1
    /\ urlDone' = urlDone \cup {cUrl[c]}
    /\ cUrl' = [cUrl EXCEPT ![c] = 0]
    /\ cPc' = [cPc EXCEPT ![c] = "get"]
    /\ UNCHANGED <<sPc, sN, sUrls, queue, cSent, sentPut>>
    /\ UNCHANGED <<poolVars, fetchVars, selVars, saveVars,
                   storeVars, listVars, modeVars,
                   gzVars, politeVars, indexVars,
                   concVars, acctVars, sizeVars>>

\* lines 144-149: run() is resumed at the await it is suspended in.
\* After the first join it puts one sentinel per consumer and joins again;
\* after the second join it awaits the consumer tasks and returns.
Run_Resume ==
    /\ sPc \in {"join1", "join2", "await"}
    /\ IF sPc \in {"join1", "join2"}
       THEN unfinished = 0
       ELSE \A c \in 1..sN : cPc[c] = "exited"
    /\ IF sPc = "join1"
       THEN /\ queue' = queue \o RunSentinels(sN)
            /\ unfinished' = unfinished + sN
            /\ sentPut' = sentPut + sN
            /\ sPc' = "join2"
       ELSE /\ sPc' = IF sPc = "join2" THEN "await" ELSE "done"
            /\ UNCHANGED <<queue, unfinished, sentPut>>
    /\ UNCHANGED <<sN, sUrls, cPc, cUrl, cSent, urlDone, urlOutcome>>
    /\ UNCHANGED <<poolVars, fetchVars, selVars, saveVars,
                   storeVars, listVars, modeVars,
                   gzVars, politeVars, indexVars,
                   concVars, acctVars, sizeVars>>

StreamNext ==
    \/ Run_Start
    \/ \E c \in Consumers : Consumer_GetSentinel(c)
    \/ \E c \in Consumers : Consumer_GetUrl(c)
    \/ \E c \in Consumers : Consumer_FetchEnds(c)
    \/ Run_Resume

\* ------------------- http_utils.py, streaming_processor.py, utils.py: fetch
LongFns == {"fetch_lines", "fetch_with_backoff"}
ShortFns == {"list_warc_keys_http", "stream_and_extract_http",
             "stream_and_extract"}
\* the functions that yield the lines or records of the body as they read it
StreamingFns == {"fetch_lines", "stream_and_extract_http", "stream_and_extract"}

\* what one request can come back with: a status, or a network-level error
Responses == {"200", "404", "500", "503", "neterr"}

BACKOFF_DELAYS == <<30, 120, 600, 1800>>

\* while attempt < 3 ... if attempt >= 3: raise
MaxAttempts == 3

\* delay = BACKOFF_DELAYS[min(backoff_idx, len(BACKOFF_DELAYS) - 1)]
\* (backoff_idx counts from 0, the tuple from 1)
BackoffDelayWrap(idx) == BACKOFF_DELAYS[(idx % Len(BACKOFF_DELAYS)) + 1]
BackoffDelay(idx) == BACKOFF_DELAYS[Min(idx, Len(BACKOFF_DELAYS) - 1) + 1]

\* the try body up to the first yield: what the response leads to
OnResponseNoShortCircuit(fn, resp, latest) ==
    CASE fn \in {"fetch_lines", "stream_and_extract_http", "stream_and_extract"} ->
            IF resp = "200" THEN "stream" ELSE "retry"
      [] fn = "fetch_with_backoff" ->
            IF resp = "200" THEN "return" ELSE "retry"
      [] OTHER ->
            IF resp = "404" /\ latest THEN "fatal"
            ELSE IF resp = "200" THEN "return" ELSE "retry"
OnResponseLatestRetried(fn, resp, latest) ==
    CASE fn = "fetch_lines" ->
            IF resp = "200" THEN "stream"
            ELSE IF resp = "404" THEN "return" ELSE "retry"
      [] fn \in {"fetch_with_backoff", "list_warc_keys_http"} ->
            IF resp = "200" THEN "return" ELSE "retry"
      [] OTHER ->
            IF resp = "200" THEN "stream" ELSE "retry"
OnResponse(fn, resp, latest) ==
    CASE fn = "fetch_lines" ->
            IF resp = "200" THEN "stream"
            ELSE IF resp = "404" THEN "return" ELSE "retry"
      [] fn = "fetch_with_backoff" ->
            IF resp = "200" THEN "return" ELSE "retry"
      [] fn = "list_warc_keys_http" ->
            IF resp = "404" /\ latest THEN "fatal"
            ELSE IF resp = "200" THEN "return" ELSE "retry"
      [] OTHER ->
            IF resp = "200" THEN "stream" ELSE "retry"

\* an exception while the body is read: except Exception (fetch_lines)
\* against except requests.RequestException (utils.py)
OnStreamError(fn, kind) ==
    IF fn = "fetch_lines" \/ kind = "RequestException"
    THEN "retry" ELSE "fatal"

\* utils.py handler: attempt += 1; if attempt >= 3: raise;
\* time.sleep(backoff); backoff *= 2
ShortHandlerNoDoubling(count, backoff, sleeps) ==
    IF count + 1 >= MaxAttempts
    THEN [pc |-> "raised", count |-> count + 1, backoff |-> backoff,
          sleeps |-> sleeps]
    ELSE [pc |-> "request", count |-> count + 1, backoff |-> backoff,
          sleeps |-> Append(sleeps, backoff)]
ShortHandler(count, backoff, sleeps) ==
    IF count + 1 >= MaxAttempts
    THEN [pc |-> "raised", count |-> count + 1, backoff |-> backoff,
          sleeps |-> sleeps]
    ELSE [pc |-> "request", count |-> count + 1, backoff |-> backoff * 2,
          sleeps |-> Append(sleeps, backoff)]

\* fetch_lines, fetch_with_backoff handler: if retries >= max_retries: raise;
\* sleep(delay); retries += 1; backoff_idx += 1
LongHandler(count, backoff, sleeps, maxr) ==
    IF count >= maxr
    THEN [pc |-> "raised", count |-> count, backoff |-> backoff,
          sleeps |-> sleeps]
    ELSE [pc |-> "request", count |-> count + 1, backoff |-> backoff + 1,
          sleeps |-> Append(sleeps, BackoffDelay(backoff))]

Handler(fn, count, backoff, sleeps, maxr) ==
    IF fn \in LongFns
    THEN LongHandler(count, backoff, sleeps, maxr)
    ELSE ShortHandler(count, backoff, sleeps)

FetchOff ==
    /\ fFn = "none"
    /\ fPc = "off"
    /\ fMaxRetries = 0
    /\ fLatest = FALSE
    /\ fLines = 0
    /\ fCount = 0
    /\ fBackoff = 0
    /\ fSleeps = <<>>
    /\ fRateSleeps = 0
    /\ fRequests = 0
    /\ fFails = 0
    /\ fNoReq = 0
    /\ fPos = 0
    /\ fDelivered = <<>>
    /\ fResp = "none"

\* the call: retries = 0, backoff_idx = 0, or attempt = 0, backoff = 1.0
FetchInit ==
    /\ fFn \in LongFns \cup ShortFns
    /\ fPc = "request"
    /\ fMaxRetries \in IF fFn \in LongFns THEN 0..MaxRetries ELSE {0}
    /\ fLatest \in IF fFn = "list_warc_keys_http" THEN BOOLEAN ELSE {FALSE}
    /\ fLines \in IF fFn \in StreamingFns THEN 0..MaxLines ELSE {0}
    /\ fCount = 0
    /\ fBackoff = IF fFn \in LongFns THEN 0 ELSE 1
    /\ fSleeps = <<>>
    /\ fRateSleeps = 0
    /\ fRequests = 0
    /\ fFails = 0
    /\ fNoReq = 0
    /\ fPos = 0
    /\ fDelivered = <<>>
    /\ fResp = "none"

\* utils.py 124-128: generate_presigned_url raises BotoCoreError or
\* ClientError: the attempt fails before any request is made
F_PresignFails ==
    /\ fFn = "stream_and_extract"
    /\ fPc = "request"
    /\ LET h == Handler(fFn, fCount, fBackoff, fSleeps, fMaxRetries)
       IN /\ fPc' = h.pc
          /\ fCount' = h.count
          /\ fBackoff' = h.backoff
          /\ fSleeps' = h.sleeps
    /\ fNoReq' = fNoReq + 1
    /\ UNCHANGED <<fFn, fMaxRetries, fLatest, fLines, fRateSleeps, fRequests,
                   fFails, fPos, fDelivered>>
    /\ UNCHANGED fResp
    /\ UNCHANGED <<poolVars, streamVars, selVars, saveVars,
                   storeVars, listVars, modeVars,
                   gzVars, politeVars, indexVars,
                   concVars, acctVars, sizeVars>>

\* one request and what the code does with its response, up to the first
\* yield, the return, or the end of the except block
F_Request ==
    /\ fPc = "request"
    /\ fRequests' = fRequests + 1
    /\ \E resp \in Responses :
          LET todo == OnResponse(fFn, resp, fLatest)
              h == Handler(fFn, fCount, fBackoff, fSleeps, fMaxRetries)
          IN /\ fResp' = resp
             /\ IF todo = "retry"
                THEN /\ fPc' = h.pc
                     /\ fCount' = h.count
                     /\ fBackoff' = h.backoff
                     /\ fSleeps' = h.sleeps
                     /\ fFails' = fFails + 1
                ELSE /\ fPc' = CASE todo = "stream" -> "stream"
                                 [] todo = "return" -> "returned"
                                 [] OTHER -> "propagated"
                     /\ UNCHANGED <<fCount, fBackoff, fSleeps, fFails>>
    /\ fPos' = 0
    /\ UNCHANGED <<fFn, fMaxRetries, fLatest, fLines, fRateSleeps, fNoReq,
                   fDelivered>>
    /\ UNCHANGED <<poolVars, streamVars, selVars, saveVars,
                   storeVars, listVars, modeVars,
                   gzVars, politeVars, indexVars,
                   concVars, acctVars, sizeVars>>

\* the next line or matching record of the body is yielded to the caller
F_Yield ==
    /\ fPc = "stream"
    /\ fPos < fLines
    /\ fPos' = fPos + 1
    /\ fDelivered' = Append(fDelivered, fPos + 1)
    /\ UNCHANGED <<fFn, fPc, fMaxRetries, fLatest, fLines, fCount, fBackoff,
                   fSleeps, fRateSleeps, fRequests, fFails, fNoReq>>
    /\ UNCHANGED fResp
    /\ UNCHANGED <<poolVars, streamVars, selVars, saveVars,
                   storeVars, listVars, modeVars,
                   gzVars, politeVars, indexVars,
                   concVars, acctVars, sizeVars>>

\* the body ends: fetch_lines returns; stream_and_extract[_http] sleeps
\* rate_limit seconds and breaks out of the loop
F_StreamEnd ==
    /\ fPc = "stream"
    /\ fPos = fLines
    /\ fPc' = "returned"
    /\ fRateSleeps' = IF fFn \in ShortFns THEN fRateSleeps + 1 ELSE fRateSleeps
    /\ UNCHANGED <<fFn, fMaxRetries, fLatest, fLines, fCount, fBackoff,
                   fSleeps, fRequests, fFails, fNoReq, fPos, fDelivered>>
    /\ UNCHANGED fResp
    /\ UNCHANGED <<poolVars, streamVars, selVars, saveVars,
                   storeVars, listVars, modeVars,
                   gzVars, politeVars, indexVars,
                   concVars, acctVars, sizeVars>>

\* reading the body raises, after any number of lines was yielded
F_StreamError ==
    /\ fPc = "stream"
    /\ \E kind \in ExcKinds :
          LET todo == OnStreamError(fFn, kind)
              h == Handler(fFn, fCount, fBackoff, fSleeps, fMaxRetries)
          IN IF todo = "retry"
             THEN /\ fPc' = h.pc
                  /\ fCount' = h.count
                  /\ fBackoff' = h.backoff
                  /\ fSleeps' = h.sleeps
                  /\ fFails' = fFails + 1
             ELSE /\ fPc' = "propagated"
                  /\ UNCHANGED <<fCount, fBackoff, fSleeps, fFails>>
    /\ UNCHANGED <<fFn, fMaxRetries, fLatest, fLines, fRateSleeps, fRequests,
                   fNoReq, fPos, fDelivered>>
    /\ UNCHANGED fResp
    /\ UNCHANGED <<poolVars, streamVars, selVars, saveVars,
                   storeVars, listVars, modeVars,
                   gzVars, politeVars, indexVars,
                   concVars, acctVars, sizeVars>>

FetchNext ==
    \/ F_PresignFails
    \/ F_Request
    \/ F_Yield
    \/ F_StreamEnd
    \/ F_StreamError

\* ------------------------------------------------- fetcher.py: selector
SelOff ==
    /\ selPc = "off"
    /\ selDoc = <<>>
    /\ selector = <<>>
    /\ selRecord = <<>>
    /\ selResult = FALSE

\* the fields of an index record and the values they take
Fields == {"status", "mime"}
Values == {"200", "video/avi"}
\* record.get(field) of a field the record does not have
None == "None"

\* a section of the document: field -> list of {"match": value} entries
DocSections ==
    UNION {[D -> SUBSET [match : Values]] : D \in SUBSET Fields}
\* the section names a document uses: the code's or the specification's
DocKeys == {{"must", "must_not", "should"}, {"must", "mustNot", "should"}}
Docs == UNION {[K -> DocSections] : K \in DocKeys}
\* an index record: the fields it has, each with a value
Records == UNION {[D -> Values] : D \in SUBSET Fields}

\* RecordSelector.from_dict._load: {} for an empty or absent section, else
\* out[field] = [c.get("match") for c in conditions if "match" in c]
Load(section) ==
    [field \in DOMAIN section |-> {c.match : c \in section[field]}]
\* _load(data.get(key)): data.get gives None for a key the document lacks
LoadKey(data, key) ==
    IF key \in DOMAIN data THEN Load(data[key]) ELSE <<>>
from_dict(data) ==
    [must |-> LoadKey(data, "must"),
     must_not |-> LoadKey(data, "must_not"),
     should |-> LoadKey(data, "should")]

RecGet(record, field) ==
    IF field \in DOMAIN record THEN record[field] ELSE None

\* RecordSelector.matches
matchesMissingPasses(sel, record) ==
    /\ \A f \in DOMAIN sel.must :
          f \in DOMAIN record => record[f] \in sel.must[f]
    /\ \A f \in DOMAIN sel.must_not : RecGet(record, f) \notin sel.must_not[f]
    /\ \/ DOMAIN sel.should = {}
       \/ \E f \in DOMAIN sel.should : RecGet(record, f) \in sel.should[f]
matches(sel, record) ==
    IF \E f \in DOMAIN sel.must : RecGet(record, f) \notin sel.must[f]
    THEN FALSE
    ELSE IF \E f \in DOMAIN sel.must_not :
                RecGet(record, f) \in sel.must_not[f]
    THEN FALSE
    ELSE IF DOMAIN sel.should = {}
    THEN TRUE
    ELSE \E f \in DOMAIN sel.should : RecGet(record, f) \in sel.should[f]

\* process_config: the recordSelector document of the configuration
SelInit ==
    /\ selPc = "doc"
    /\ selDoc \in Docs
    /\ selector = <<>>
    /\ selRecord = <<>>
    /\ selResult = FALSE

\* selector = RecordSelector.from_dict(cfg.get("recordSelector", {}))
Sel_FromDict ==
    /\ selPc = "doc"
    /\ selector' = from_dict(selDoc)
    /\ selPc' = "built"
    /\ UNCHANGED <<selDoc, selRecord, selResult>>
    /\ UNCHANGED <<poolVars, streamVars, fetchVars, saveVars, storeVars,
                   listVars, modeVars, gzVars,
                   politeVars, indexVars, concVars,
                   acctVars, sizeVars>>

\* if not selector.matches(record): continue
Sel_Matches ==
    /\ selPc = "built"
    /\ \E record \in Records :
          /\ selRecord' = record
          /\ selResult' = matches(selector, record)
    /\ selPc' = "matched"
    /\ UNCHANGED <<selDoc, selector>>
    /\ UNCHANGED <<poolVars, streamVars, fetchVars, saveVars, storeVars,
                   listVars, modeVars, gzVars,
                   politeVars, indexVars, concVars,
                   acctVars, sizeVars>>

SelNext ==
    \/ Sel_FromDict
    \/ Sel_Matches

\* ------------------------------------------------- utils.py: save_file
SaveOff ==
    /\ svPc = "off"
    /\ svDir = <<>>
    /\ svCalls = <<>>

\* the source URLs saved and the payloads written
Urls == {"http://example.com/a/hello.py?x=1", "http://example.com/dir/"}
Payloads == {"print(1)", "print(2)"}

\* base = os.path.basename(urlparse(url).path) or "file", sanitised, and
\* name, ext = os.path.splitext(base)
SplitBase(url) ==
    IF url = "http://example.com/a/hello.py?x=1"
    THEN [name |-> "hello", ext |-> ".py"]
    ELSE [name |-> "file", ext |-> ""]

\* a file name: counter 0 is base itself, counter n is f"{name}_{n}{ext}"
FileName(b, counter) == <<b.name, counter, b.ext>>

\* candidate = base; counter = 1
\* while os.path.exists(candidate): candidate = f"{name}_{counter}{ext}"; counter += 1
RECURSIVE Candidate(_, _, _)
Candidate(dir, b, counter) ==
    IF FileName(b, counter) \in DOMAIN dir
    THEN Candidate(dir, b, counter + 1)
    ELSE FileName(b, counter)
SaveNameNoCheck(dir, url) == FileName(SplitBase(url), 0)
SaveName(dir, url) == Candidate(dir, SplitBase(url), 0)

\* open(file_path, "wb"); fh.write(data): the file is created or replaced
WriteFile(dir, path, data) ==
    [n \in DOMAIN dir \cup {path} |-> IF n = path THEN data ELSE dir[n]]

\* an empty output directory
SaveInit ==
    /\ svPc = "run"
    /\ svDir = <<>>
    /\ svCalls = <<>>

\* one call save_file(data, url, output_dir), from entry to return
SaveFile ==
    /\ svPc = "run"
    /\ Len(svCalls) < MaxSaves
    /\ \E url \in Urls, data \in Payloads :
          LET path == SaveName(svDir, url)
          IN /\ svDir' = WriteFile(svDir, path, data)
             /\ svCalls' = Append(svCalls,
                                  [url |-> url, data |-> data, path |-> path])
    /\ UNCHANGED svPc
    /\ UNCHANGED <<poolVars, streamVars, fetchVars, selVars, storeVars,
                   listVars, modeVars, gzVars,
                   politeVars, indexVars, concVars,
                   acctVars, sizeVars>>

SaveNext == SaveFile

\* ------------------------------------ utils.py: load_state, save_state
StoreOff ==
    /\ stPc = "off"
    /\ stFile = [kind |-> "missing"]
    /\ stMem = {}
    /\ stSaved = {}
    /\ stLoaded = {}
    /\ stLoadedFrom = [kind |-> "missing"]

\* a process starts on whatever the state file holds
StoreInit ==
    /\ stPc = "start"
    /\ stFile \in FileContents
    /\ stMem = {}
    /\ stSaved = {}
    /\ stLoaded = {}
    /\ stLoadedFrom = [kind |-> "missing"]

\* crawler.py 214: completed_keys = load_state(STATE_FILE)
St_Load ==
    /\ stPc = "start"
    /\ stLoadedFrom' = stFile
    /\ IF load_state_raises(stFile)
       THEN /\ stPc' = "raised"
            /\ UNCHANGED <<stMem, stLoaded>>
       ELSE /\ stPc' = "run"
            /\ stLoaded' = load_state(stFile)
            /\ stMem' = load_state(stFile)
    /\ UNCHANGED <<stFile, stSaved>>
    /\ UNCHANGED <<poolVars, streamVars, fetchVars, selVars, saveVars,
                   listVars, modeVars, gzVars,
                   politeVars, indexVars, concVars,
                   acctVars, sizeVars>>

\* crawler.py 265-267, utils.py 232-233: completed_keys.add(key), then
\* save_state opens the file with mode "w", which empties it
St_Open ==
    /\ stPc = "run"
    /\ \E key \in Keys \ stMem : stMem' = stMem \cup {key}
    /\ stFile' = [kind |-> "invalid"]
    /\ stPc' = "dump"
    /\ UNCHANGED <<stSaved, stLoaded, stLoadedFrom>>
    /\ UNCHANGED <<poolVars, streamVars, fetchVars, selVars, saveVars,
                   listVars, modeVars, gzVars,
                   politeVars, indexVars, concVars,
                   acctVars, sizeVars>>

\* utils.py 234: json.dump writes the snapshot and the file is closed; the
\* save_state call is complete
St_Dump ==
    /\ stPc = "dump"
    /\ stFile' = save_state(stMem)
    /\ stSaved' = stSaved \cup stMem
    /\ stPc' = "run"
    /\ UNCHANGED <<stMem, stLoaded, stLoadedFrom>>
    /\ UNCHANGED <<poolVars, streamVars, fetchVars, selVars, saveVars,
                   listVars, modeVars, gzVars,
                   politeVars, indexVars, concVars,
                   acctVars, sizeVars>>

\* the process is killed; the file stays as it is
St_Kill ==
    /\ stPc \in {"run", "dump"}
    /\ stPc' = "killed"
    /\ UNCHANGED <<stFile, stMem, stSaved, stLoaded, stLoadedFrom>>
    /\ UNCHANGED <<poolVars, streamVars, fetchVars, selVars, saveVars,
                   listVars, modeVars, gzVars,
                   politeVars, indexVars, concVars,
                   acctVars, sizeVars>>

\* the next process calls load_state(STATE_FILE)
St_Reload ==
    /\ stPc = "killed"
    /\ stLoadedFrom' = stFile
    /\ IF load_state_raises(stFile)
       THEN /\ stPc' = "raised"
            /\ UNCHANGED stLoaded
       ELSE /\ stPc' = "reloaded"
            /\ stLoaded' = load_state(stFile)
    /\ UNCHANGED <<stFile, stMem, stSaved>>
    /\ UNCHANGED <<poolVars, streamVars, fetchVars, selVars, saveVars,
                   listVars, modeVars, gzVars,
                   politeVars, indexVars, concVars,
                   acctVars, sizeVars>>

StoreNext ==
    \/ St_Load
    \/ St_Open
    \/ St_Dump
    \/ St_Kill
    \/ St_Reload

\* ------------------------- utils.py: list_warc_keys, list_warc_keys_http
ListOff ==
    /\ lsPc = "off"
    /\ lsFn = "none"
    /\ lsPages = <<>>
    /\ lsMaxKeys = 0
    /\ lsKeys = <<>>
    /\ lsPageNo = 0
    /\ lsIdx = 0

ListFns == {"list_warc_keys", "list_warc_keys_http"}
\* an object of a page or a line of the manifest: "warc" is a key that
\* ends with ".warc.gz" and does not start with "crawl-data/", "prefixed"
\* one that ends with ".warc.gz" and starts with "crawl-data/", "other" a
\* key that does not end with ".warc.gz" (or an object without a key)
ObjKinds == {"warc", "prefixed", "other"}
\* key.endswith(".warc.gz")
EndsWithWarc(kind) == kind \in {"warc", "prefixed"}
\* how many times the string starts with "crawl-data/"
Prefixes(kind) == IF kind = "prefixed" THEN 1 ELSE 0
\* what is appended: key (list_warc_keys), f"crawl-data/{key}" (http)
AppendedPrefixes(fn, kind) ==
    IF fn = "list_warc_keys" THEN Prefixes(kind) ELSE 1 + Prefixes(kind)
PageSet == UNION {[1..n -> ObjKinds] : n \in 0..MaxPageLen}
\* the paginator yields any number of pages; the manifest is one body
Listings(fn) ==
    IF fn = "list_warc_keys"
    THEN UNION {[1..n -> PageSet] : n \in 0..MaxPages}
    ELSE [1..1 -> PageSet]

\* keys = []
ListInit ==
    /\ lsPc = "page"
    /\ lsFn \in ListFns
    /\ lsPages \in Listings(lsFn)
    /\ lsMaxKeys \in 0..MaxKeys
    /\ lsKeys = <<>>
    /\ lsPageNo = 0
    /\ lsIdx = 0

\* for page in paginator.paginate(...): the next page is requested, or the
\* loop is over and keys is returned
L_NextPage ==
    /\ lsPc = "page"
    /\ IF lsPageNo < Len(lsPages)
       THEN /\ lsPageNo' = lsPageNo + 1
            /\ lsIdx' = 0
            /\ lsPc' = "objs"
       ELSE /\ lsPc' = "returned"
            /\ UNCHANGED <<lsPageNo, lsIdx>>
    /\ UNCHANGED <<lsFn, lsPages, lsMaxKeys, lsKeys>>
    /\ UNCHANGED <<poolVars, streamVars, fetchVars, selVars, saveVars,
                   storeVars, modeVars, gzVars,
                   politeVars, indexVars, concVars,
                   acctVars, sizeVars>>

\* the next object of the page: if key and key.endswith(".warc.gz"):
\* keys.append(key); if len(keys) >= max_keys: return keys (or break)
L_Obj ==
    /\ lsPc = "objs"
    /\ lsIdx < Len(lsPages[lsPageNo])
    /\ lsIdx' = lsIdx + 1
    /\ IF EndsWithWarc(lsPages[lsPageNo][lsIdx + 1])
       THEN /\ lsKeys' = Append(lsKeys,
                  <<lsPageNo, lsIdx + 1,
                    AppendedPrefixes(lsFn, lsPages[lsPageNo][lsIdx + 1])>>)
            /\ lsPc' = IF Len(lsKeys) + 1 >= lsMaxKeys
                       THEN "returned" ELSE "objs"
       ELSE UNCHANGED <<lsKeys, lsPc>>
    /\ UNCHANGED <<lsFn, lsPages, lsMaxKeys, lsPageNo>>
    /\ UNCHANGED <<poolVars, streamVars, fetchVars, selVars, saveVars,
                   storeVars, modeVars, gzVars,
                   politeVars, indexVars, concVars,
                   acctVars, sizeVars>>

\* the inner loop is over
L_PageEnd ==
    /\ lsPc = "objs"
    /\ lsIdx = Len(lsPages[lsPageNo])
    /\ lsPc' = "page"
    /\ UNCHANGED <<lsFn, lsPages, lsMaxKeys, lsKeys, lsPageNo, lsIdx>>
    /\ UNCHANGED <<poolVars, streamVars, fetchVars, selVars, saveVars,
                   storeVars, modeVars, gzVars,
                   politeVars, indexVars, concVars,
                   acctVars, sizeVars>>

ListNext ==
    \/ L_NextPage
    \/ L_Obj
    \/ L_PageEnd

\* ------------------------- crawler.py main: listing fallback, transport
ModeOff ==
    /\ mPc = "off"
    /\ mMode = "none"
    /\ mUseHttp = FALSE
    /\ mCalls = <<>>
    /\ mListing = "none"
    /\ mKeys = <<>>
    /\ mFile = [kind |-> "missing"]
    /\ mWrites = 0
    /\ mVia = [k \in Keys |-> "none"]

\* what a listing call can return: the keys, in some order
KeyLists == {ks \in ItemLists : \A i, j \in 1..Len(ks) : i # j => ks[i] # ks[j]}

\* lines 227-244: the iterator process_warc creates
TransportByMode(mode, use_http) ==
    IF mode = "http" THEN "stream_and_extract_http" ELSE "stream_and_extract"
Transport(mode, use_http) ==
    IF use_http THEN "stream_and_extract_http" ELSE "stream_and_extract"

\* line 189: use_http = args.mode == "http"
ModeInit ==
    /\ mPc = "list"
    /\ mMode \in {"aws", "http"}
    /\ mUseHttp = (mMode = "http")
    /\ mCalls = <<>>
    /\ mListing = "none"
    /\ mKeys = <<>>
    /\ mFile \in {[kind |-> "missing"]} \cup {save_state(S) : S \in SUBSET Keys}
    /\ mWrites = 0
    /\ mVia = [k \in Keys |-> "none"]

\* lines 194-199 and the except branch of http mode (210-212): the listing
\* call of the mode returns keys or raises
M_List ==
    /\ mPc = "list"
    /\ mCalls' = Append(mCalls, IF mUseHttp THEN "manifest" ELSE "bucket")
    /\ \/ \E ks \in KeyLists :
             /\ mKeys' = ks
             /\ mListing' = "ok"
             /\ mPc' = "load"
       \/ /\ mPc' = IF mUseHttp THEN "done" ELSE "fallback"
          /\ mListing' = IF mUseHttp THEN "failed" ELSE "none"
          /\ UNCHANGED mKeys
    /\ UNCHANGED <<mMode, mUseHttp, mFile, mWrites, mVia>>
    /\ UNCHANGED <<poolVars, streamVars, fetchVars, selVars, saveVars,
                   storeVars, listVars, gzVars,
                   politeVars, indexVars, concVars,
                   acctVars, sizeVars>>

\* lines 200-209: bucket listing raised outside http mode: the manifest is
\* listed; use_http = True when that returns, return when it raises
M_Fallback ==
    /\ mPc = "fallback"
    /\ mCalls' = Append(mCalls, "manifest")
    /\ \/ \E ks \in KeyLists :
             /\ mKeys' = ks
             /\ mUseHttp' = TRUE
             /\ mListing' = "ok"
             /\ mPc' = "load"
       \/ /\ mPc' = "done"
          /\ mListing' = "failed"
          /\ UNCHANGED <<mKeys, mUseHttp>>
    /\ UNCHANGED <<mMode, mFile, mWrites, mVia>>
    /\ UNCHANGED <<poolVars, streamVars, fetchVars, selVars, saveVars,
                   storeVars, listVars, gzVars,
                   politeVars, indexVars, concVars,
                   acctVars, sizeVars>>

\* lines 214-220: the completed keys are filtered out; return when none is left
M_Load ==
    /\ mPc = "load"
    /\ mKeys' = FilterKeys(mKeys, load_state(mFile))
    /\ mPc' = IF FilterKeys(mKeys, load_state(mFile)) = <<>>
              THEN "done" ELSE "pool"
    /\ UNCHANGED <<mMode, mUseHttp, mCalls, mListing, mFile, mWrites, mVia>>
    /\ UNCHANGED <<poolVars, streamVars, fetchVars, selVars, saveVars,
                   storeVars, listVars, gzVars,
                   politeVars, indexVars, concVars,
                   acctVars, sizeVars>>

\* lines 226-244: a worker enters process_warc(key) and creates the iterator
M_Start(k) ==
    /\ mPc = "pool"
    /\ k \in Range(mKeys)
    /\ mVia[k] = "none"
    /\ mVia' = [mVia EXCEPT ![k] = Transport(mMode, mUseHttp)]
    /\ UNCHANGED <<mPc, mMode, mUseHttp, mCalls, mListing, mKeys, mFile,
                   mWrites>>
    /\ UNCHANGED <<poolVars, streamVars, fetchVars, selVars, saveVars,
                   storeVars, listVars, gzVars,
                   politeVars, indexVars, concVars,
                   acctVars, sizeVars>>

\* lines 264-267: the finally block of process_warc(key)
M_Finish(k) ==
    /\ mPc = "pool"
    /\ mVia[k] # "none"
    /\ k \notin load_state(mFile)
    /\ mFile' = save_state(load_state(mFile) \cup {k})
    /\ mWrites' = mWrites + 1
    /\ UNCHANGED <<mPc, mMode, mUseHttp, mCalls, mListing, mKeys, mVia>>
    /\ UNCHANGED <<poolVars, streamVars, fetchVars, selVars, saveVars,
                   storeVars, listVars, gzVars,
                   politeVars, indexVars, concVars,
                   acctVars, sizeVars>>

\* lines 272-273: every future has completed
M_End ==
    /\ mPc = "pool"
    /\ Range(mKeys) \subseteq load_state(mFile)
    /\ mPc' = "done"
    /\ UNCHANGED <<mMode, mUseHttp, mCalls, mListing, mKeys, mFile, mWrites,
                   mVia>>
    /\ UNCHANGED <<poolVars, streamVars, fetchVars, selVars, saveVars,
                   storeVars, listVars, gzVars,
                   politeVars, indexVars, concVars,
                   acctVars, sizeVars>>

ModeNext ==
    \/ M_List
    \/ M_Fallback
    \/ M_Load
    \/ \E k \in Keys : M_Start(k)
    \/ \E k \in Keys : M_Finish(k)
    \/ M_End

\* --------------------- streaming_processor.py: the gzip line readers
GzOff ==
    /\ gzPc = "off"
    /\ gzFn = "none"
    /\ gzMembers = <<>>
    /\ gzLen = 0
    /\ gzPos = 0
    /\ gzZ = "start"
    /\ gzBuf = <<>>
    /\ gzOut = <<>>

\* plaintext bytes: a letter and the newline
Chars == {"a", "nl"}
Plaintexts == UNION {[1..n -> Chars] : n \in 0..MaxPlain}
RECURSIVE TotalLen(_)
TotalLen(members) ==
    IF members = <<>> THEN 0
    ELSE Len(Head(members)) + TotalLen(Tail(members))
\* the streams read: 1..MaxMembers members, MaxPlain plaintext bytes in all
MemberLists ==
    {ms \in UNION {[1..n -> Plaintexts] : n \in 1..MaxMembers} :
        TotalLen(ms) <= MaxPlain}

\* a gzip member as a byte sequence: a header "H", one unit of compressed
\* data for each plaintext byte, a trailer "T"
GzipMember(plain) == <<"H">> \o plain \o <<"T">>
RECURSIVE GzipStream(_)
GzipStream(members) ==
    IF members = <<>> THEN <<>>
    ELSE GzipMember(Head(members)) \o GzipStream(Tail(members))

\* zlib.decompressobj(16 + MAX_WBITS).decompress(chunk): the object decodes
\* one gzip member; what follows the trailer goes to unused_data
RECURSIVE Decompress(_, _)
Decompress(z, chunk) ==
    IF chunk = <<>> THEN [z |-> z, part |-> <<>>]
    ELSE LET b == Head(chunk)
             z1 == CASE z = "start" /\ b = "H" -> "member"
                     [] z = "member" /\ b = "T" -> "eof"
                     [] OTHER -> z
             o1 == IF z = "member" /\ b \in Chars THEN <<b>> ELSE <<>>
             r == Decompress(z1, Tail(chunk))
         IN [z |-> r.z, part |-> o1 \o r.part]

\* buf += part
CarryNone(buf, part) == part
Carry(buf, part) == buf \o part

\* while b"\n" in buf: line, buf = buf.split(b"\n", 1); yield line
RECURSIVE SplitBuf(_)
SplitBuf(buf) ==
    IF \A i \in 1..Len(buf) : buf[i] # "nl"
    THEN [lines |-> <<>>, buf |-> buf]
    ELSE LET n == CHOOSE i \in 1..Len(buf) :
                     buf[i] = "nl" /\ \A j \in 1..(i - 1) : buf[j] # "nl"
             r == SplitBuf(SubSeq(buf, n + 1, Len(buf)))
         IN [lines |-> <<SubSeq(buf, 1, n - 1)>> \o r.lines, buf |-> r.buf]

\* decompressor = zlib.decompressobj(16 + zlib.MAX_WBITS); buf = b""
GzInit ==
    /\ gzPc = "read"
    /\ gzFn \in {"response", "file"}
    /\ gzMembers \in MemberLists
    /\ gzLen \in 0..Len(GzipStream(gzMembers))
    /\ gzPos = 0
    /\ gzZ = "start"
    /\ gzBuf = <<>>
    /\ gzOut = <<>>

\* one chunk of any size arrives and is decompressed; the full lines of buf
\* are yielded
Gz_Chunk ==
    /\ gzPc = "read"
    /\ gzPos < gzLen
    /\ \E n \in 1..(gzLen - gzPos) :
          LET chunk == SubSeq(GzipStream(gzMembers), gzPos + 1, gzPos + n)
              d == Decompress(gzZ, chunk)
              sp == SplitBuf(Carry(gzBuf, d.part))
          IN /\ gzPos' = gzPos + n
             /\ gzZ' = d.z
             /\ IF d.part # <<>>
                THEN /\ gzBuf' = sp.buf
                     /\ gzOut' = gzOut \o sp.lines
                ELSE UNCHANGED <<gzBuf, gzOut>>
    /\ UNCHANGED <<gzPc, gzFn, gzMembers, gzLen>>
    /\ UNCHANGED <<poolVars, streamVars, fetchVars, selVars, saveVars,
                   storeVars, listVars, modeVars,
                   politeVars, indexVars, concVars,
                   acctVars, sizeVars>>

\* the source is at its end: buf += decompressor.flush(), which returns
\* nothing more and raises nothing; if buf: yield buf; the reader ends
Gz_End ==
    /\ gzPc = "read"
    /\ gzPos = gzLen
    /\ gzOut' = IF gzBuf # <<>> THEN Append(gzOut, gzBuf) ELSE gzOut
    /\ gzPc' = "done"
    /\ UNCHANGED <<gzFn, gzMembers, gzLen, gzPos, gzZ, gzBuf>>
    /\ UNCHANGED <<poolVars, streamVars, fetchVars, selVars, saveVars,
                   storeVars, listVars, modeVars,
                   politeVars, indexVars, concVars,
                   acctVars, sizeVars>>

GzNext ==
    \/ Gz_Chunk
    \/ Gz_End

\* ------------- crawler.py pool, utils.py: the timing of the fetches
PoliteOff ==
    /\ plPc = "off"
    /\ plNow = 0
    /\ plRate = 0
    /\ plWorkers = 0
    /\ plQueue = 0
    /\ plW = <<>>
    /\ plStarts = <<>>

\* lines 269-271: the pool is created and every key submitted; all segments
\* are on one host (data.commoncrawl.org, or the bucket's)
PoliteInit ==
    /\ plPc = "run"
    /\ plNow = 0
    /\ plRate \in 1..MaxRate
    /\ plWorkers \in 1..MaxWorkers
    /\ plQueue \in 1..MaxSegs
    /\ plW = [w \in 1..plWorkers |-> [st |-> "idle", wake |-> 0]]
    /\ plStarts = <<>>

\* a free pool thread takes the next key; process_warc iterates the
\* generator, which sends requests.get(url, stream=True, ...)
Pl_Fetch(w) ==
    /\ plPc = "run"
    /\ w \in DOMAIN plW
    /\ plW[w].st = "idle"
    /\ plQueue > 0
    /\ plQueue' = plQueue - 1
    /\ plW' = [plW EXCEPT ![w].st = "fetching"]
    /\ plStarts' = Append(plStarts, plNow)
    /\ UNCHANGED <<plPc, plNow, plRate, plWorkers>>
    /\ UNCHANGED <<poolVars, streamVars, fetchVars, selVars, saveVars,
                   storeVars, listVars, modeVars, gzVars,
                   indexVars, concVars, acctVars,
                   sizeVars>>

\* utils.py 326-327: the body is read to its end; time.sleep(rate_limit)
Pl_Sleep(w) ==
    /\ plPc = "run"
    /\ w \in DOMAIN plW
    /\ plW[w].st = "fetching"
    /\ plW' = [plW EXCEPT ![w] = [st |-> "sleeping", wake |-> plNow + plRate]]
    /\ UNCHANGED <<plPc, plNow, plRate, plWorkers, plQueue, plStarts>>
    /\ UNCHANGED <<poolVars, streamVars, fetchVars, selVars, saveVars,
                   storeVars, listVars, modeVars, gzVars,
                   indexVars, concVars, acctVars,
                   sizeVars>>

\* the sleep is over; the generator ends and process_warc returns
Pl_Wake(w) ==
    /\ plPc = "run"
    /\ w \in DOMAIN plW
    /\ plW[w].st = "sleeping"
    /\ plNow >= plW[w].wake
    /\ plW' = [plW EXCEPT ![w] = [st |-> "idle", wake |-> 0]]
    /\ UNCHANGED <<plPc, plNow, plRate, plWorkers, plQueue, plStarts>>
    /\ UNCHANGED <<poolVars, streamVars, fetchVars, selVars, saveVars,
                   storeVars, listVars, modeVars, gzVars,
                   indexVars, concVars, acctVars,
                   sizeVars>>

\* a second passes
Pl_Tick ==
    /\ plPc = "run"
    /\ plNow < MaxTime
    /\ plNow' = plNow + 1
    /\ UNCHANGED <<plPc, plRate, plWorkers, plQueue, plW, plStarts>>
    /\ UNCHANGED <<poolVars, streamVars, fetchVars, selVars, saveVars,
                   storeVars, listVars, modeVars, gzVars,
                   indexVars, concVars, acctVars,
                   sizeVars>>

PoliteNext ==
    \/ \E w \in 1..MaxWorkers : Pl_Fetch(w)
    \/ \E w \in 1..MaxWorkers : Pl_Sleep(w)
    \/ \E w \in 1..MaxWorkers : Pl_Wake(w)
    \/ Pl_Tick

\* ------------------------------ crawler.py main: index mode
IndexOff ==
    /\ ixPc = "off"
    /\ ixLines = <<>>
    /\ ixSamples = 0
    /\ ixExt = ""
    /\ ixI = 0
    /\ ixCount = 0
    /\ ixR = 0
    /\ ixSaved = <<>>

\* the values of ext; DEFAULT_EXT is ".mp3"
IndexExts == {".mp3", ".ogg"}

\* a URL is its text cut before its last extension
IndexUrls == {<<"http://h/a", e>> : e \in IndexExts}

\* a line of the index response: a JSON object with filename, offset, length
\* and url ("ok"), text json.loads rejects ("badjson"), or a JSON object
\* without one of the four keys ("nofield")
IndexLines ==
    [kind : {"ok"}, url : IndexUrls]
        \cup [kind : {"badjson", "nofield"}, url : {<<>>}]

\* a Content-Type value cut at its first "/"; <<>> is the default "" of
\* get_header when the header is absent
ContentTypes ==
    {<<"audio", "/", "mpeg">>, <<"text", "/", "plain">>,
     <<"application", "/", "audio">>, <<>>}

\* the records ArchiveIterator yields from a range response, one at a time
\* and at most MaxRecs of them; both types carry HTTP headers
IndexRecords == [type : {"response", "request"}, ctype : ContentTypes]

\* content_type.startswith("audio/")
StartsWithAudio(ct) ==
    Len(ct) >= 2 /\ SubSeq(ct, 1, 2) = <<"audio", "/">>

\* url.endswith(ext)
UrlEndsWith(url, ext) ==
    Len(url) > 0 /\ url[Len(url)] = ext

IndexMatchAnyMedia(rec, url, ext) ==
    rec.type = "response" /\ UrlEndsWith(url, ext)

\* lines 173-177: the condition of the inner loop
IndexMatch(rec, url, ext) ==
    /\ rec.type = "response"
    /\ StartsWithAudio(rec.ctype)
    /\ UrlEndsWith(url, ext)

IndexInit ==
    /\ ixPc = "lines"
    /\ ixLines \in UNION {[1..n -> IndexLines] : n \in 0..MaxIdxLines}
    /\ ixSamples \in 0..MaxSamples
    /\ ixExt \in IndexExts
    /\ ixI = 0
    /\ ixCount = 0
    /\ ixR = 0
    /\ ixSaved = <<>>

\* lines 138-169: one pass of the outer loop up to the inner loop.
\* json.loads(line) and entry[...] are in no try block: a line that is not
\* a JSON object with the four keys raises out of main.  The range request
\* fails three times (r = None, continue) or returns records.
Ix_Line ==
    /\ ixPc = "lines"
    /\ ixI < Len(ixLines)
    /\ ixCount < ixSamples
    /\ ixI' = ixI + 1
    /\ IF ixLines[ixI + 1].kind # "ok"
         THEN /\ ixPc' = "raised"
              /\ UNCHANGED ixR
         ELSE \/ /\ ixPc' = "lines"
                 /\ UNCHANGED ixR
              \/ /\ ixR' = 0
                 /\ ixPc' = "recs"
    /\ UNCHANGED <<ixLines, ixSamples, ixExt, ixCount, ixSaved>>
    /\ UNCHANGED <<poolVars, streamVars, fetchVars, selVars, saveVars,
                   storeVars, listVars, modeVars, gzVars, politeVars,
                   concVars, acctVars, sizeVars>>

\* lines 171-186: one record of the inner loop.  A matching record is
\* passed to save_file; count grows when save_file returns, and the loop
\* is left whether it returned or raised.
Ix_Rec ==
    /\ ixPc = "recs"
    /\ ixR < MaxRecs
    /\ ixR' = ixR + 1
    /\ \E rec \in IndexRecords :
          IF IndexMatch(rec, ixLines[ixI].url, ixExt)
          THEN /\ ixPc' = "lines"
               /\ \/ /\ ixSaved' = Append(ixSaved,
                                           [line |-> ixI, at |-> ixR + 1,
                                            rec |-> rec,
                                            url |-> ixLines[ixI].url])
                     /\ ixCount' = ixCount + 1
                  \/ UNCHANGED <<ixSaved, ixCount>>
          ELSE UNCHANGED <<ixPc, ixSaved, ixCount>>
    /\ UNCHANGED <<ixLines, ixSamples, ixExt, ixI>>
    /\ UNCHANGED <<poolVars, streamVars, fetchVars, selVars, saveVars,
                   storeVars, listVars, modeVars, gzVars, politeVars,
                   concVars, acctVars, sizeVars>>

\* the iterator has no further record: the inner loop ends
Ix_RecsEnd ==
    /\ ixPc = "recs"
    /\ ixPc' = "lines"
    /\ UNCHANGED <<ixLines, ixSamples, ixExt, ixI, ixCount, ixR, ixSaved>>
    /\ UNCHANGED <<poolVars, streamVars, fetchVars, selVars, saveVars,
                   storeVars, listVars, modeVars, gzVars, politeVars,
                   concVars, acctVars, sizeVars>>

\* lines 139-140, 187: the lines are used up or count reached args.samples
Ix_Return ==
    /\ ixPc = "lines"
    /\ ixI = Len(ixLines) \/ ixCount >= ixSamples
    /\ ixPc' = "done"
    /\ UNCHANGED <<ixLines, ixSamples, ixExt, ixI, ixCount, ixR, ixSaved>>
    /\ UNCHANGED <<poolVars, streamVars, fetchVars, selVars, saveVars,
                   storeVars, listVars, modeVars, gzVars, politeVars,
                   concVars, acctVars, sizeVars>>

IndexNext ==
    \/ Ix_Line
    \/ Ix_Rec
    \/ Ix_RecsEnd
    \/ Ix_Return

\* ------------------ utils.py save_file, called from the pool's threads
ConcOff ==
    /\ cvPc = "off"
    /\ cvDir = <<>>
    /\ cvT = <<>>
    /\ cvStarted = 0
    /\ cvReturned = <<>>

ThreadIdle == [pc |-> "idle", url |-> "", data |-> "", counter |-> 0]

\* the threads of ThreadPoolExecutor and an empty output directory
ConcInit ==
    /\ cvPc = "run"
    /\ cvDir = <<>>
    /\ cvT \in UNION {[1..n -> {ThreadIdle}] : n \in 1..MaxWorkers}
    /\ cvStarted = 0
    /\ cvReturned = <<>>

\* crawler.py 256: process_warc calls save_file(data, url, OUTPUT_DIR), holding
\* no lock; candidate = base, counter = 1
Cv_Call(t) ==
    /\ cvPc = "run"
    /\ t \in DOMAIN cvT
    /\ cvT[t].pc = "idle"
    /\ cvStarted < MaxSaves
    /\ cvStarted' = cvStarted + 1
    /\ \E url \in Urls, data \in Payloads :
          cvT' = [cvT EXCEPT ![t] = [pc |-> "check", url |-> url,
                                     data |-> data, counter |-> 0]]
    /\ UNCHANGED <<cvPc, cvDir, cvReturned>>
    /\ UNCHANGED <<poolVars, streamVars, fetchVars, selVars, saveVars,
                   storeVars, listVars, modeVars, gzVars, politeVars,
                   indexVars, acctVars, sizeVars>>

\* utils.py 198-200: one test of os.path.exists(candidate); the next
\* candidate when it exists, the end of the loop when it does not
Cv_Exists(t) ==
    /\ cvPc = "run"
    /\ t \in DOMAIN cvT
    /\ cvT[t].pc = "check"
    /\ IF FileName(SplitBase(cvT[t].url), cvT[t].counter) \in DOMAIN cvDir
         THEN cvT' = [cvT EXCEPT ![t].counter = @ + 1]
         ELSE cvT' = [cvT EXCEPT ![t].pc = "write"]
    /\ UNCHANGED <<cvPc, cvDir, cvStarted, cvReturned>>
    /\ UNCHANGED <<poolVars, streamVars, fetchVars, selVars, saveVars,
                   storeVars, listVars, modeVars, gzVars, politeVars,
                   indexVars, acctVars, sizeVars>>

\* utils.py 202-206: open(file_path, "wb"), fh.write(data), return file_path
Cv_Write(t) ==
    /\ cvPc = "run"
    /\ t \in DOMAIN cvT
    /\ cvT[t].pc = "write"
    /\ LET path == FileName(SplitBase(cvT[t].url), cvT[t].counter)
       IN /\ cvDir' = WriteFile(cvDir, path, cvT[t].data)
          /\ cvReturned' = Append(cvReturned,
                                  [thread |-> t, url |-> cvT[t].url,
                                   data |-> cvT[t].data, path |-> path])
    /\ cvT' = [cvT EXCEPT ![t] = ThreadIdle]
    /\ UNCHANGED <<cvPc, cvStarted>>
    /\ UNCHANGED <<poolVars, streamVars, fetchVars, selVars, saveVars,
                   storeVars, listVars, modeVars, gzVars, politeVars,
                   indexVars, acctVars, sizeVars>>

ConcNext ==
    \/ \E t \in 1..MaxWorkers : Cv_Call(t)
    \/ \E t \in 1..MaxWorkers : Cv_Exists(t)
    \/ \E t \in 1..MaxWorkers : Cv_Write(t)

\* ------- utils.py stream_and_extract(_http) and crawler.py process_warc:
\* which extension a record is yielded for and which one it is counted for
AcctOff ==
    /\ acPc = "off"
    /\ acSamples = 0
    /\ acCounts = <<>>
    /\ acLog = <<>>

\* a WARC-Target-URI as its pieces: a stem, an extension, and then nothing,
\* a query string or a fragment; the last URI carries an extension only
\* inside its query string
UriTails == {<<>>, <<"?x=1">>, <<"#top">>}
Uris ==
    {<<"http://h/a", e>> \o t : e \in TARGET_EXTENSIONS \cup {"txt"},
                                t \in UriTails}
        \cup {<<"http://h/a", "txt", "?f=a", "py">>}

\* urlparse(uri).path: what precedes the first "?" or "#"
RECURSIVE UrlPath(_)
UrlPath(uri) ==
    IF uri = <<>> \/ Head(uri) \in {"?x=1", "#top", "?f=a"} THEN <<>>
    ELSE <<Head(uri)>> \o UrlPath(Tail(uri))

\* s.endswith(ext)
EndsWithExt(s, ext) == Len(s) > 0 /\ s[Len(s)] = ext

\* utils.py 322-324: any(path.endswith(ext) for ext in target_exts)
Yielded(uri) ==
    \E e \in TARGET_EXTENSIONS : EndsWithExt(UrlPath(uri), e)

\* crawler.py 246-249: next((e for e in TARGET_EXTENSIONS if url.endswith(e)),
\* None), on the whole url
FindExt(url) ==
    IF \E e \in TARGET_EXTENSIONS : EndsWithExt(url, e)
    THEN CHOOSE e \in TARGET_EXTENSIONS : EndsWithExt(url, e)
    ELSE NoExt

AcctInit ==
    /\ acPc = "run"
    /\ acSamples \in 0..MaxSamples
    /\ acCounts = [e \in TARGET_EXTENSIONS |-> 0]
    /\ acLog = <<>>

\* one response record with a target URI: the extractor yields it or passes
\* it by; process_warc looks for its extension, skips it when it finds none
\* or when the quota is met, and saves and counts it otherwise
Ac_Record ==
    /\ acPc = "run"
    /\ Len(acLog) < MaxYield
    /\ \E uri \in Uris :
          LET ext == FindExt(uri)
              outcome == IF ~Yielded(uri) THEN "passed"
                         ELSE IF ext = NoExt THEN "dropped"
                         ELSE IF acCounts[ext] >= acSamples THEN "quota"
                         ELSE "saved"
          IN /\ acLog' = Append(acLog, [uri |-> uri, ext |-> ext,
                                        outcome |-> outcome])
             /\ acCounts' = IF outcome = "saved"
                            THEN [acCounts EXCEPT ![ext] = @ + 1]
                            ELSE acCounts
    /\ UNCHANGED <<acPc, acSamples>>
    /\ UNCHANGED <<poolVars, streamVars, fetchVars, selVars, saveVars,
                   storeVars, listVars, modeVars, gzVars, politeVars,
                   indexVars, concVars, sizeVars>>

AcctNext == Ac_Record

\* ------------------------- crawler.py 269-270: creating the pool
SizeOff ==
    /\ psPc = "off"
    /\ psWorkers = 0
    /\ psKeys = 0
    /\ psSize = 0

\* --workers is any int; main returned at line 219 when warc_keys is empty
SizeInit ==
    /\ psPc = "start"
    /\ psWorkers \in (0 - MaxPoolArg)..MaxPoolArg
    /\ psKeys \in 1..MaxDispatch
    /\ psSize = 0

\* line 269 and ThreadPoolExecutor(max_workers=max_workers) with a size the
\* constructor accepts
Ps_Create ==
    /\ psPc = "start"
    /\ PoolSize(psWorkers, psKeys) > 0
    /\ psSize' = PoolSize(psWorkers, psKeys)
    /\ psPc' = "created"
    /\ UNCHANGED <<psWorkers, psKeys>>
    /\ UNCHANGED <<poolVars, streamVars, fetchVars, selVars, saveVars,
                   storeVars, listVars, modeVars, gzVars, politeVars,
                   indexVars, concVars, acctVars>>

\* line 269 and ThreadPoolExecutor(max_workers=max_workers) with
\* max_workers <= 0: the constructor raises ValueError and no pool exists
Ps_Raise ==
    /\ psPc = "start"
    /\ PoolSize(psWorkers, psKeys) <= 0
    /\ psSize' = PoolSize(psWorkers, psKeys)
    /\ psPc' = "raised"
    /\ UNCHANGED <<psWorkers, psKeys>>
    /\ UNCHANGED <<poolVars, streamVars, fetchVars, selVars, saveVars,
                   storeVars, listVars, modeVars, gzVars, politeVars,
                   indexVars, concVars, acctVars>>

SizeNext ==
    \/ Ps_Create
    \/ Ps_Raise

PoolNext ==
    \/ MainLoad
    \/ WorkerTake
    \/ \E k \in Keys : PW_Yield(k)
    \/ \E k \in Keys : PW_End(k)
    \/ \E k \in Keys : PW_Raise(k)
    \/ \E k \in Keys : PW_Check(k)
    \/ \E k \in Keys : PW_Save(k)
    \/ \E k \in Keys : PW_SaveFails(k)
    \/ \E k \in Keys : PW_Incr(k)
    \/ \E k \in Keys : PW_Finally(k)
    \/ \E k \in Keys : PW_SaveState(k)
    \/ MainResult
    \/ MainShutdown
    \/ MainRerun

Init == PoolInit /\ StreamOff /\ FetchOff
        /\ SelOff /\ SaveOff /\ StoreOff /\ ListOff /\ ModeOff
        /\ SizeOff
        /\ AcctOff
        /\ ConcOff
        /\ IndexOff
        /\ PoliteOff
        /\ GzOff

Next == PoolNext

Spec == Init /\ [][Next]_vars

InitStream == StreamInit /\ PoolOff /\ FetchOff
        /\ SelOff /\ SaveOff /\ StoreOff /\ ListOff /\ ModeOff
        /\ SizeOff
        /\ AcctOff
        /\ ConcOff
        /\ IndexOff
        /\ PoliteOff
        /\ GzOff

SpecStream == InitStream /\ [][StreamNext]_vars

InitSelector == SelInit /\ PoolOff /\ StreamOff /\ FetchOff
                /\ SaveOff /\ StoreOff /\ ListOff /\ ModeOff /\ GzOff
        /\ SizeOff
        /\ AcctOff
        /\ ConcOff
        /\ IndexOff
        /\ PoliteOff

SpecSelector == InitSelector /\ [][SelNext]_vars

InitSave == SaveInit /\ PoolOff /\ StreamOff /\ FetchOff
            /\ SelOff /\ StoreOff /\ ListOff /\ ModeOff /\ GzOff
        /\ SizeOff
        /\ AcctOff
        /\ ConcOff
        /\ IndexOff
        /\ PoliteOff

SpecSave == InitSave /\ [][SaveNext]_vars

InitStore == StoreInit /\ PoolOff /\ StreamOff /\ FetchOff
             /\ SelOff /\ SaveOff /\ ListOff /\ ModeOff /\ GzOff
        /\ SizeOff
        /\ AcctOff
        /\ ConcOff
        /\ IndexOff
        /\ PoliteOff

SpecStore == InitStore /\ [][StoreNext]_vars

InitList == ListInit /\ PoolOff /\ StreamOff /\ FetchOff
            /\ SelOff /\ SaveOff /\ StoreOff /\ ModeOff /\ GzOff
        /\ SizeOff
        /\ AcctOff
        /\ ConcOff
        /\ IndexOff
        /\ PoliteOff

SpecList == InitList /\ [][ListNext]_vars

InitMode == ModeInit /\ PoolOff /\ StreamOff /\ FetchOff
            /\ SelOff /\ SaveOff /\ StoreOff /\ ListOff /\ GzOff
        /\ SizeOff
        /\ AcctOff
        /\ ConcOff
        /\ IndexOff
        /\ PoliteOff

SpecMode == InitMode /\ [][ModeNext]_vars

InitGz == GzInit /\ PoolOff /\ StreamOff /\ FetchOff
          /\ SelOff /\ SaveOff /\ StoreOff /\ ListOff /\ ModeOff
        /\ SizeOff
        /\ AcctOff
        /\ ConcOff
        /\ IndexOff
        /\ PoliteOff

SpecGz == InitGz /\ [][GzNext]_vars

InitPolite == PoliteInit /\ PoolOff /\ StreamOff /\ FetchOff
              /\ SelOff /\ SaveOff /\ StoreOff /\ ListOff /\ ModeOff /\ GzOff
        /\ SizeOff
        /\ AcctOff
        /\ ConcOff
        /\ IndexOff

SpecPolite == InitPolite /\ [][PoliteNext]_vars

InitIndex == IndexInit /\ PoolOff /\ StreamOff /\ FetchOff
             /\ SelOff /\ SaveOff /\ StoreOff /\ ListOff /\ ModeOff /\ GzOff
        /\ SizeOff
        /\ AcctOff
        /\ ConcOff
             /\ PoliteOff

SpecIndex == InitIndex /\ [][IndexNext]_vars

InitConc == ConcInit /\ PoolOff /\ StreamOff /\ FetchOff
            /\ SelOff /\ SaveOff /\ StoreOff /\ ListOff /\ ModeOff /\ GzOff
        /\ SizeOff
        /\ AcctOff
            /\ PoliteOff /\ IndexOff

SpecConc == InitConc /\ [][ConcNext]_vars

InitAcct == AcctInit /\ PoolOff /\ StreamOff /\ FetchOff
            /\ SelOff /\ SaveOff /\ StoreOff /\ ListOff /\ ModeOff /\ GzOff
        /\ SizeOff
            /\ PoliteOff /\ IndexOff /\ ConcOff

SpecAcct == InitAcct /\ [][AcctNext]_vars

InitSize == SizeInit /\ PoolOff /\ StreamOff /\ FetchOff
            /\ SelOff /\ SaveOff /\ StoreOff /\ ListOff /\ ModeOff /\ GzOff
            /\ PoliteOff /\ IndexOff /\ ConcOff /\ AcctOff

SpecSize == InitSize /\ [][SizeNext]_vars

InitFetch == FetchInit /\ PoolOff /\ StreamOff
        /\ SelOff /\ SaveOff /\ StoreOff /\ ListOff /\ ModeOff
        /\ SizeOff
        /\ AcctOff
        /\ ConcOff
        /\ IndexOff
        /\ PoliteOff
        /\ GzOff

SpecFetch == InitFetch /\ [][FetchNext]_vars

\* ---------------------------------------------------------------- claims
\* C1: for every extension e, the number of save_file calls for e and
\* saved_counts[e] never exceed args.samples, under every interleaving of
\* the pool's workers.
C1_QuotaNeverExceeded ==
    \A e \in TARGET_EXTENSIONS :
        /\ saveCalls[e] <= samples
        /\ saved_counts[e] <= samples

\* C2: a run dispatches exactly the listed segments that are not in the loaded
\* state, the state persisted when the run ends is the loaded state united
\* with the list, and a second run over the same list dispatches nothing.
C2_ResumeExact ==
    /\ mainPc # "start" => dispatched[run] = Range(listed) \ prior
    /\ mainPc = "done" => load_state(stateFile) = prior \cup Range(listed)
    /\ (run = 2 /\ mainPc # "start") => dispatched[2] = {}

C2_Witness ==
    /\ run = 2
    /\ mainPc = "done"
    /\ dispatched[1] # {}
    /\ dispatched[1] # Range(listed)
    /\ dispatched[2] = {}

\* C3: every dispatched segment whose processing ended, in success, in a
\* caught failure or with every record skipped for quota, is in the
\* in-memory completion set and in the saved state file; at the end of the
\* run that holds for every dispatched segment.
C3_DispatchedRecorded ==
    /\ \A k \in Keys :
          futState[k] \in {"done", "exc"} =>
              /\ k \in completed_keys
              /\ k \in load_state(stateFile)
    /\ mainPc = "done" =>
          \A k \in dispatched[run] :
              /\ futState[k] \in {"done", "exc"}
              /\ k \in load_state(stateFile)

C3_Witness ==
    /\ mainPc = "done"
    /\ \E k \in dispatched[run] :
          /\ pwOut[k] = "failed"
          /\ k \in load_state(stateFile)
          /\ k \notin prior

\* C4: an exception raised while one segment is fetched or iterated never
\* leaves the loop that awaits the futures, and every other dispatched
\* segment is still processed.
C4_SegmentIsolation ==
    /\ ~mainExc
    /\ \A k \in Keys : futState[k] # "exc"
    /\ mainPc = "done" =>
          \A k \in dispatched[run] : pwOut[k] \in {"ok", "failed"}

C4_Witness ==
    /\ mainPc = "done"
    /\ \E k1, k2 \in dispatched[run] :
          /\ k1 < k2
          /\ pwOut[k1] = "failed"
          /\ pwOut[k2] = "ok"
          /\ pwSaved[k2]

\* C5: run() returns: as long as it has not, some task can still take a step
\* (every fetch is taken to finish).
C5_RunTerminates ==
    sPc = "done" \/ ENABLED StreamNext

\* C6: no sentinel is on or has been put on the queue, and no consumer has
\* exited, before every enqueued URL was taken and marked done.
C6_DrainBeforeShutdown ==
    (sentPut > 0 \/ \E c \in Consumers : cPc[c] = "exited")
        => urlDone = 1..sUrls

\* C7: run() puts max_concurrent_tasks sentinels in all, no consumer takes
\* more than one, and once every consumer has exited every consumer has taken
\* one and the queue is empty.
C7_OneSentinelPerConsumer ==
    /\ sentPut <= sN
    /\ \A c \in Consumers : cSent[c] <= 1
    /\ (sPc # "start" /\ \A c \in 1..sN : cPc[c] = "exited") =>
          /\ queue = <<>>
          /\ sentPut = sN
          /\ \A c \in 1..sN : cSent[c] = 1

\* C8: the lines or records of one source reach the caller in archive
\* order, each at most once, whatever fails and is retried on the way.
C8_ArchiveOrderOnce ==
    \A i \in 1..Len(fDelivered) : fDelivered[i] = i

\* the delays of the short-retry loops: 1 s, then 2 s
ShortDelays == <<1, 2>>

LongDelay(i) ==
    CASE i = 1 -> 30
      [] i = 2 -> 120
      [] i = 3 -> 600
      [] OTHER -> 1800

\* C10: in fetch_lines and fetch_with_backoff the i-th retry is delayed by
\* 30, 120, 600, 1800, 1800, ... seconds, one sleep per failure while the
\* budget lasts; at most max_retries retries and max_retries + 1 requests are
\* made, and the error is re-raised exactly when the failure after the last
\* retry occurs, with no further sleep.
C10_LongRetryLaw ==
    fFn \in LongFns =>
        /\ \A i \in 1..Len(fSleeps) : fSleeps[i] = LongDelay(i)
        /\ Len(fSleeps) = Min(fFails, fMaxRetries)
        /\ fRequests <= fMaxRetries + 1
        /\ fPc = "raised" <=> fFails = fMaxRetries + 1
        /\ fPc = "raised" => fRequests = fMaxRetries + 1

C10_Witness ==
    /\ fFn = "fetch_lines"
    /\ fPc = "raised"
    /\ fMaxRetries = 5
    /\ fSleeps = <<30, 120, 600, 1800, 1800>>

\* C11: when a request of fetch_lines comes back with status 404, fetch_lines
\* returns without an exception, that attempt yields no line, and the 404
\* adds no retry and no sleep: a 404 on the first request leaves zero
\* retries, zero sleeps and no line delivered. The consumer's async for then
\* ends normally and the consumer takes its next URL.
C11_NotFoundShortCircuit ==
    (fFn = "fetch_lines" /\ fResp = "404") =>
        /\ fPc = "returned"
        /\ fPos = 0
        /\ fCount = fRequests - 1
        /\ Len(fSleeps) = fRequests - 1
        /\ fFails = fRequests - 1
        /\ fRequests = 1 => (fSleeps = <<>> /\ fDelivered = <<>>)

C11_Witness ==
    /\ fFn = "fetch_lines"
    /\ fResp = "404"
    /\ fRequests = 1
    /\ fPc = "returned"
    /\ fLines > 0
    /\ fMaxRetries > 0

\* C12: in stream_and_extract_http, stream_and_extract and fetch_with_backoff
\* a 404 is not retried: a 404 on the first request is the only request of
\* the call, and no backoff sleep follows it.
C12_NotFoundNeverRetried ==
    ( /\ fFn \in {"stream_and_extract_http", "stream_and_extract",
                  "fetch_with_backoff"}
      /\ fResp = "404"
      /\ fRequests = 1
      /\ fNoReq = 0 ) =>
        /\ fPc # "request"
        /\ fSleeps = <<>>

\* C13: matches(record) is true iff every must field is present in the
\* record with a value in that field's list, no must_not field is present
\* with a value in that field's list, and the should section is empty or
\* some should field is present with a value in its list.
C13_MatchesLaw ==
    selPc = "matched" =>
        ( selResult <=>
            /\ \A f \in DOMAIN selector.must :
                  /\ f \in DOMAIN selRecord
                  /\ selRecord[f] \in selector.must[f]
            /\ ~ \E f \in DOMAIN selector.must_not :
                  /\ f \in DOMAIN selRecord
                  /\ selRecord[f] \in selector.must_not[f]
            /\ \/ selector.should = <<>>
               \/ \E f \in DOMAIN selector.should :
                     /\ f \in DOMAIN selRecord
                     /\ selRecord[f] \in selector.should[f] )

C13_Witness ==
    /\ selPc = "matched"
    /\ selResult
    /\ selector.must # <<>>
    /\ \E f \in DOMAIN selector.must_not :
          selector.must_not[f] # {} /\ f \notin DOMAIN selRecord
    /\ \E f \in DOMAIN selector.should : selector.should[f] = {}

\* C14: a selector built by from_dict from a document whose mustNot section
\* lists value v for field f rejects every record with record[f] = v.
C14_MustNotHonoured ==
    ( /\ selPc = "matched"
      /\ "mustNot" \in DOMAIN selDoc
      /\ \E f \in DOMAIN selRecord :
            /\ f \in DOMAIN selDoc["mustNot"]
            /\ [match |-> selRecord[f]] \in selDoc["mustNot"][f] ) =>
        ~selResult

\* C15: after N sequential save_file calls for one URL into a directory that
\* was empty, the i-th of them returned base for i = 1 and name_(i-1)ext
\* after that, the directory holds exactly one file per call, and every file
\* still holds the bytes of the call that created it.
C15_CollisionLaw ==
    /\ \A i \in 1..Len(svCalls) :
          LET c == svCalls[i]
              b == SplitBase(c.url)
              earlier == {j \in 1..(i - 1) : svCalls[j].url = c.url}
          IN /\ c.path = <<b.name, Cardinality(earlier), b.ext>>
             /\ c.path \in DOMAIN svDir
             /\ svDir[c.path] = c.data
    /\ \A i, j \in 1..Len(svCalls) : i # j => svCalls[i].path # svCalls[j].path
    /\ Cardinality(DOMAIN svDir) = Len(svCalls)

C15_Witness ==
    /\ Len(svCalls) = 3
    /\ \A i \in 1..3 : svCalls[i].url = "http://example.com/a/hello.py?x=1"
    /\ svCalls[1].data # svCalls[2].data
    /\ DOMAIN svDir = {<<"hello", 0, ".py">>, <<"hello", 1, ".py">>,
                       <<"hello", 2, ".py">>}

\* C16: when the process was killed, at any point of the run and also
\* between the opening of the state file and the end of json.dump, the next
\* load_state returns a set that holds every identifier recorded by a
\* save_state call that had completed.
C16_CrashDurability ==
    stPc = "reloaded" => stSaved \subseteq stLoaded

\* C17: load_state raises for no content of the state file, and returns the
\* empty set for every content that is not a list of identifiers.
C17_LoadNeverRaises ==
    /\ stPc # "raised"
    /\ stLoadedFrom.kind \notin {"list", "toplist"} => stLoaded = {}

C19_EarlyStop ==
    [][ ( /\ samples >= 1
          /\ \A e \in TARGET_EXTENSIONS : saved_counts[e] >= samples
          /\ \E k \in Keys : futState[k] \in {"done", "exc"} )
          => \A k \in Keys : futState[k] = "pending" => futState'[k] = "pending"
      ]_vars

\* C20: for every max_keys >= 0 and every listing, list_warc_keys and
\* list_warc_keys_http hold at most max_keys keys, each the key of an object
\* ending in ".warc.gz", in listing order, and once the cap is reached by a
\* key the call has returned without reading a page after that key's page.
C20_ListingCap ==
    /\ Len(lsKeys) <= lsMaxKeys
    /\ \A i \in 1..Len(lsKeys) :
          EndsWithWarc(lsPages[lsKeys[i][1]][lsKeys[i][2]])
    /\ \A i, j \in 1..Len(lsKeys) :
          i < j => \/ lsKeys[i][1] < lsKeys[j][1]
                   \/ (lsKeys[i][1] = lsKeys[j][1] /\ lsKeys[i][2] < lsKeys[j][2])
    /\ (lsKeys # <<>> /\ Len(lsKeys) >= lsMaxKeys) =>
          /\ lsPc = "returned"
          /\ lsPageNo = lsKeys[Len(lsKeys)][1]

\* C21: every identifier list_warc_keys_http returns starts with the data
\* root "crawl-data/" exactly once, whether or not the manifest line it
\* comes from already starts with it.
C21_PrefixedOnce ==
    lsFn = "list_warc_keys_http" =>
        \A i \in 1..Len(lsKeys) : lsKeys[i][3] = 1

\* C22: when CC-MAIN-LATEST was appended and the manifest request comes back
\* with 404, list_warc_keys_http ends with the RuntimeError, which passes
\* the handler of the network error type: the 404 adds no retry and no
\* sleep, so a 404 on the first request gives exactly one request and no
\* backoff sleep; and the call ends that way in no other case.
C22_LatestNotFound ==
    /\ (fFn = "list_warc_keys_http" /\ fLatest /\ fResp = "404") =>
          /\ fPc = "propagated"
          /\ fCount = fRequests - 1
          /\ Len(fSleeps) = fRequests - 1
          /\ fRequests = 1 => fSleeps = <<>>
    /\ (fFn = "list_warc_keys_http" /\ fPc = "propagated") =>
          (fLatest /\ fResp = "404")

C22_Witness ==
    /\ fFn = "list_warc_keys_http"
    /\ fLatest
    /\ fResp = "404"
    /\ fRequests = 1
    /\ fPc = "propagated"

\* C23: the listing calls of a run are the bucket listing alone, the
\* manifest listing alone, or the bucket listing followed by one manifest
\* listing, and http mode never lists the bucket; after a fallback that
\* succeeded every segment is fetched by stream_and_extract_http; when the
\* manifest listing failed the run is over with no segment started and no
\* save_state call made, and in aws mode that was after the bucket listing
\* and one manifest listing.
C23_OneWayFallback ==
    /\ mCalls \in {<<>>, <<"bucket">>, <<"manifest">>, <<"bucket", "manifest">>}
    /\ mMode = "http" => mCalls \in {<<>>, <<"manifest">>}
    /\ (mCalls = <<"bucket", "manifest">> /\ mListing = "ok") =>
          \A k \in Keys : mVia[k] \in {"none", "stream_and_extract_http"}
    /\ mListing = "failed" =>
          /\ mPc = "done"
          /\ mCalls[Len(mCalls)] = "manifest"
          /\ mMode = "aws" => mCalls = <<"bucket", "manifest">>
          /\ mWrites = 0
          /\ \A k \in Keys : mVia[k] = "none"

C23_Witness ==
    /\ mPc = "done"
    /\ mMode = "aws"
    /\ mCalls = <<"bucket", "manifest">>
    /\ mListing = "ok"
    /\ mWrites = 2
    /\ \A k \in Keys : mVia[k] = "stream_and_extract_http"

\* the plaintext of the whole stream: the members' plaintexts, concatenated
RECURSIVE PlainAll(_)
PlainAll(members) ==
    IF members = <<>> THEN <<>>
    ELSE Head(members) \o PlainAll(Tail(members))

\* the lines of a plaintext: the pieces that end at each newline, and the
\* piece after the last newline when it is not empty
LineEnds(p) ==
    {i \in 1..Len(p) : p[i] = "nl"}
        \cup (IF p # <<>> /\ p[Len(p)] # "nl" THEN {Len(p) + 1} ELSE {})
LinesOf(p) ==
    LET ends == SortedSeq(LineEnds(p))
    IN [j \in 1..Len(ends) |->
          SubSeq(p, (IF j = 1 THEN 0 ELSE ends[j - 1]) + 1, ends[j] - 1)]

\* the lines, each followed by its newline, as one byte sequence
RECURSIVE JoinLines(_)
JoinLines(lines) ==
    IF lines = <<>> THEN <<>>
    ELSE Head(lines) \o <<"nl">> \o JoinLines(Tail(lines))

\* C24: for a stream of two or more gzip members that is read to its end,
\* the reader yields the lines of the concatenation of all members'
\* plaintext.
C24_MultiMember ==
    (gzPc = "done" /\ gzLen = Len(GzipStream(gzMembers))) =>
        gzOut = LinesOf(PlainAll(gzMembers))

\* C25: however the stream is cut into chunks, after any number of reads
\* the lines yielded followed by buf are what one decompress call gives for
\* the bytes read so far, buf holds no newline, and at the end the lines
\* yielded are the lines of what one decompress call gives for the whole
\* stream: the lines of the plaintext, for a complete one-member stream.
C25_ChunkingIndependence ==
    /\ JoinLines(gzOut) \o (IF gzPc = "read" THEN gzBuf ELSE <<>>) =
          LET whole == Decompress("start",
                           SubSeq(GzipStream(gzMembers), 1, gzPos)).part
          IN IF gzPc = "done" /\ whole # <<>> /\ whole[Len(whole)] # "nl"
             THEN whole \o <<"nl">> ELSE whole
    /\ \A i \in 1..Len(gzBuf) : gzBuf[i] # "nl"
    /\ gzPc = "done" =>
          gzOut = LinesOf(Decompress("start",
                      SubSeq(GzipStream(gzMembers), 1, gzLen)).part)
    /\ (gzPc = "done" /\ Len(gzMembers) = 1
            /\ gzLen = Len(GzipStream(gzMembers))) =>
          gzOut = LinesOf(gzMembers[1])

C25_Witness ==
    /\ gzPc = "read"
    /\ gzMembers = <<(<<"a", "a">>)>>
    /\ gzLen = 4
    /\ gzPos = 2
    /\ gzBuf = <<"a">>

\* C26: when the source ends inside a gzip member, before the stream is
\* complete, the reader does not finish normally: it raises.
C26_TruncationReported ==
    ( /\ gzPos = gzLen
      /\ gzLen < Len(GzipStream(gzMembers))
      /\ gzZ = "member" ) => gzPc # "done"

\* C27: any two requests sent to the host during the pool run, by the same
\* worker or by different workers, are at least rate_limit seconds apart.
C27_HostPoliteness ==
    \A i, j \in 1..Len(plStarts) :
        i < j => plStarts[j] - plStarts[i] >= plRate

\* C28: in index mode a line that is not a JSON object with the required
\* fields is skipped: taking such a line never ends the run with an
\* exception.
C28_MalformedSkipped ==
    ~ ( /\ ixPc = "raised"
        /\ ixLines[ixI].kind # "ok" )

\* C29: in index mode every saved payload belongs to a response record
\* whose Content-Type starts with "audio/" and whose index URL ends with the
\* requested extension; no index line has two saved files; the number of
\* saved files never exceeds args.samples.
C29_IndexSelection ==
    /\ \A k \in 1..Len(ixSaved) :
          /\ ixSaved[k].rec.type = "response"
          /\ StartsWithAudio(ixSaved[k].rec.ctype)
          /\ UrlEndsWith(ixSaved[k].url, ixExt)
    /\ \A j, k \in 1..Len(ixSaved) :
          ixSaved[j].line = ixSaved[k].line => j = k
    /\ Len(ixSaved) <= ixSamples
    /\ ixCount = Len(ixSaved)

\* the run returned at the cap with a line left over, having saved a record
\* that came after a non-matching one
C29_Witness ==
    /\ ixPc = "done"
    /\ ixSamples >= 1
    /\ Len(ixSaved) = ixSamples
    /\ ixI < Len(ixLines)
    /\ \E k \in 1..Len(ixSaved) : ixSaved[k].at = 2

\* C30: for any interleaving of the threads' save_file calls, the calls that
\* returned have pairwise distinct paths, and each file they wrote is still
\* on disk with the content that call wrote (files on disk = returned calls).
C30_ConcurrentCollisionSafe ==
    /\ \A j, k \in 1..Len(cvReturned) :
          cvReturned[j].path = cvReturned[k].path => j = k
    /\ \A k \in 1..Len(cvReturned) :
          /\ cvReturned[k].path \in DOMAIN cvDir
          /\ cvDir[cvReturned[k].path] = cvReturned[k].data
    /\ Cardinality(DOMAIN cvDir) = Len(cvReturned)

\* C31: every record the extractor yields is accounted to a category:
\* process_warc finds a configured extension for it and saves it, or skips
\* it because that extension's quota is met; none is dropped for lack of a
\* category.
C31_YieldedAccounted ==
    \A k \in 1..Len(acLog) :
        Yielded(acLog[k].uri) =>
            /\ acLog[k].ext \in TARGET_EXTENSIONS
            /\ acLog[k].outcome \in {"saved", "quota"}

\* C32 as stated: for every extension e, saved_counts[e] equals, in every
\* state, the number of save_file calls for e that returned.
C32_CountsEqualReturned ==
    \A e \in TARGET_EXTENSIONS : saved_counts[e] = saveCalls[e]

\* C32: a save_file call that raises leaves saved_counts and the number of
\* returned calls unchanged and puts the worker back on the records of the
\* same segment; for every extension e, saved_counts[e] equals the number of
\* save_file calls for e that returned, less those whose worker has not yet
\* run the increment that follows the return.
C32_FailureIsolated ==
    /\ [](\A e \in TARGET_EXTENSIONS :
            saveCalls[e] = saved_counts[e]
                + Cardinality({k \in Keys : pwPc[k] = "incr" /\ pwExt[k] = e}))
    /\ [][\A k \in Keys :
            (pwPc[k] = "save" /\ pwPc'[k] \notin {"save", "incr"}) =>
                /\ pwPc'[k] = "iter"
                /\ saved_counts' = saved_counts
                /\ saveCalls' = saveCalls]_vars

\* a worker is back on the records of its segment after save_file raised for
\* a record whose extension had quota left: nothing was counted or written
C32_Witness ==
    \E k \in Keys, e \in TARGET_EXTENSIONS :
        /\ pwPc[k] = "iter"
        /\ pwExt[k] = e
        /\ samples >= 1
        /\ saved_counts[e] = 0
        /\ saveCalls[e] = 0

\* C33: for every worker count w, zero and negative ones included, and every
\* non-empty dispatch list of n segments, the pool is created, with exactly
\* max(1, min(w, n)) workers.
C33_PoolSize ==
    psPc \in {"created", "raised"} =>
        /\ psPc = "created"
        /\ psSize = (IF Min(psWorkers, psKeys) >= 1
                     THEN Min(psWorkers, psKeys) ELSE 1)

\* C34: the queue's unfinished count is never negative and always equals
\* the items still on the queue plus the URLs taken and not yet finished, so
\* every item taken is matched by exactly one task_done and the count is zero
\* exactly when nothing is queued or in progress; a consumer that leaves a
\* fetch, failed or not, calls task_done once and goes back to queue.get().
C34_QueueAccounting ==
    /\ [](/\ unfinished >= 0
          /\ unfinished = Len(queue)
                + Cardinality({c \in Consumers : cPc[c] = "fetch"}))
    /\ [][\A c \in Consumers :
            (cPc[c] = "fetch" /\ cPc'[c] # "fetch") =>
                /\ cPc'[c] = "get"
                /\ unfinished' = unfinished - 1]_vars
    /\ [][\A c \in Consumers :
            (cPc[c] = "get" /\ cPc'[c] = "exited") =>
                unfinished' = unfinished - 1]_vars

\* the only consumer has finished a URL whose fetch failed and is fetching
\* the next URL
C34_Witness ==
    /\ sN = 1
    /\ cPc[1] = "fetch"
    /\ \E u \in 1..MaxUrls : u \in urlDone /\ urlOutcome[u] = "error"

====
